---- MODULE Spec2Model ----
(***************************************************************************)
(* ThreadGraph trace analyzer (package detector): the per-goroutine state  *)
(* engine of Analyze, the stack classifier of filter.go and the detectors  *)
(* that scan the final snapshot.                                           *)
(*                                                                         *)
(* Strings are sequences of tokens (a token is a run of characters that no *)
(* pattern of the code cuts in two), so prefix and substring tests are     *)
(* computed.  Timestamps and durations are counted in microseconds.        *)
(***************************************************************************)
EXTENDS Integers, Sequences, FiniteSets, TLC

VARIABLES goroutines, firstTime, lastTime, first, pc, result, opts,
          gstate, nread, syncLog, stderr, run, static, classified

vars == <<goroutines, firstTime, lastTime, first, pc, result, opts,
          gstate, nread, syncLog, stderr, run, static, classified>>

----------------------------------------------------------------------------
(* Strings                                                                 *)

HasPrefix(s, p) ==
    /\ Len(p) <= Len(s)
    /\ SubSeq(s, 1, Len(p)) = p

Contains(s, p) ==
    \E i \in 0..(Len(s) - Len(p)) : SubSeq(s, i + 1, i + Len(p)) = p

IsSpace(tok) == tok \in {" ", "      ", "\n"}

SetMin(S) == CHOOSE x \in S : \A y \in S : x <= y

SetMax(S) == CHOOSE x \in S : \A y \in S : y <= x

\* strings.TrimSpace
TrimSpace(s) ==
    LET keep == {i \in DOMAIN s : ~IsSpace(s[i])}
    IN  IF keep = {} THEN <<>> ELSE SubSeq(s, SetMin(keep), SetMax(keep))

\* strings.Split(s, "\n"): the pieces between newline tokens, as a set
SplitNewline(s) ==
    LET n    == Len(s)
        cuts == {i \in 1..n : s[i] = "\n"}
    IN  {SubSeq(s, p + 1, SetMin({i \in cuts \cup {n + 1} : i > p}) - 1) :
            p \in {0} \cup cuts}

\* strings.SplitN(line, " ", 2)[0]: what precedes the first space
FirstField(s) ==
    LET sp == {i \in DOMAIN s : IsSpace(s[i])}
    IN  IF sp = {} THEN s ELSE SubSeq(s, 1, SetMin(sp) - 1)

RECURSIVE SeqConcat(_)
SeqConcat(ss) ==
    IF ss = <<>> THEN <<>> ELSE Head(ss) \o SeqConcat(Tail(ss))

Range(s) == {s[i] : i \in DOMAIN s}

Perms(S) ==
    {f \in [1..Cardinality(S) -> S] : \A i, j \in DOMAIN f : i # j => f[i] # f[j]}

----------------------------------------------------------------------------
(* Stack classifier (filter.go)                                            *)

isRuntimeFrame(funcName, line) ==
    \/ HasPrefix(funcName, <<"runtime.">>)
    \/ Contains(line, <<"runtime/">>)
    \/ HasPrefix(funcName, <<"runtime2.">>)
    \/ Contains(line, <<"/", "runtime/", "trace">>)
    \/ HasPrefix(funcName, <<"testing.">>)
    \/ Contains(line, <<"_testmain.go">>)

\* fmt.Sprintf("%s:%d", f.File, f.Line)
FrameLocation(f) == f.File \o <<":", ToString(f.Line)>>

\* fmt.Fprintf(&sb, "      %s (%s:%d)\n", f.Func, f.File, f.Line)
FrameLine(f) ==
    <<"      ">> \o f.Func \o <<" ", "(">> \o FrameLocation(f) \o <<")", "\n">>

UserFrames(s) ==
    SelectSeq(s, LAMBDA f : ~isRuntimeFrame(f.Func, f.File))

extractStack(s) ==
    LET user == UserFrames(s)
    IN  [stack    |-> SeqConcat([i \in 1..Len(s) |-> FrameLine(s[i])]),
         function |-> IF user = <<>> THEN <<>> ELSE user[1].Func,
         location |-> IF user = <<>> THEN <<>> ELSE FrameLocation(user[1])]

----------------------------------------------------------------------------
(* Frames and stacks the traces are built from                             *)

FrameA   == [Func |-> <<"main.lockA">>, File |-> <<"a.go">>, Line |-> 10]
FrameB   == [Func |-> <<"main.lockB">>, File |-> <<"b.go">>, Line |-> 20]
FrameRT  == [Func |-> <<"runtime.", "gopark">>,
             File |-> <<"/go/src/", "runtime/", "proc.go">>, Line |-> 402]
FrameTst == [Func |-> <<"testing.", "tRunner">>,
             File |-> <<"/go/src/", "testing/", "testing.", "go">>, Line |-> 1690]
FrameC   == [Func |-> <<"main.worker">>, File |-> <<"c.go">>, Line |-> 30]
\* a function of a package whose import path has a runtime/ element, compiled
\* from a directory that has none
FrameT   == [Func |-> <<"example.com/", "runtime/", "pool.Get">>,
             File |-> <<"t.go">>, Line |-> 5]

StackEmpty == <<>>
StackA     == <<FrameRT, FrameA>>
StackB     == <<FrameB>>
StackRT    == <<FrameRT>>
StackTst   == <<FrameRT, FrameTst>>
StackC     == <<FrameC>>
StackT     == <<FrameT>>
StackA1    == <<FrameA>>

KnownStacks ==
    {StackEmpty, StackA, StackB, StackRT, StackTst, StackC, StackT, StackA1}

\* the loop of isRuntimeGoroutine over the lines of a rendered stack
AllLinesRuntime(stack) ==
    IF stack = <<>> THEN TRUE
    ELSE \A piece \in SplitNewline(stack) :
            LET line == TrimSpace(piece)
            IN  line = <<>> \/ isRuntimeFrame(FirstField(line), line)

\* the value of AllLinesRuntime on the renderings of the stacks above, computed
\* once
RuntimeOnlyOfKnown ==
    [stack \in {extractStack(s).stack : s \in KnownStacks} |-> AllLinesRuntime(stack)]

isRuntimeGoroutine(stack) ==
    IF stack \in DOMAIN RuntimeOnlyOfKnown
    THEN RuntimeOnlyOfKnown[stack]
    ELSE AllLinesRuntime(stack)

isNonTestRuntimeGoroutine(stack) ==
    IF ~isRuntimeGoroutine(stack) THEN FALSE
    ELSE ~Contains(stack, <<"testing.">>)

----------------------------------------------------------------------------
(* Program constants                                                       *)

syncHistorySize   == 5
abbaStaleWindow   == 5000000
deadlockThreshold == 500000
orphanWindow      == 200000

----------------------------------------------------------------------------
(* Goroutine records (analyzer.go)                                         *)

NoEntry == [location |-> <<>>, endTime |-> 0]

NewGoroutineState ==
    [reason |-> "", stack |-> <<>>, function |-> <<>>, location |-> <<>>,
     blockStart |-> 0, isBlocked |-> FALSE,
     creationStack |-> <<>>, creationSeen |-> FALSE,
     creationFunction |-> <<>>, creationLocation |-> <<>>,
     prevLongBlockReason |-> "", prevLongBlockStack |-> <<>>,
     prevLongBlockFunction |-> <<>>, prevLongBlockLocation |-> <<>>,
     prevLongBlockDuration |-> 0,
     syncHistory |-> [i \in 0..(syncHistorySize - 1) |-> NoEntry],
     syncHistoryIdx |-> 0,
     prevSyncLocation |-> <<>>, prevSyncEndTime |-> 0,
     goroutineDead |-> FALSE]

Min(a, b) == IF a < b THEN a ELSE b

\* faulty variant: the walk starts at the write position, not at the slot before it
syncHistoryList_OffByOne(g) ==
    LET n   == Min(g.syncHistoryIdx, syncHistorySize)
        all == [i \in 1..n |->
                  g.syncHistory[(g.syncHistoryIdx - (i - 1)) % syncHistorySize]]
    IN  SelectSeq(all, LAMBDA e : e.location # <<>>)

\* entries of the circular buffer, most recent first, empty locations left out
syncHistoryList(g) ==
    LET n   == Min(g.syncHistoryIdx, syncHistorySize)
        all == [i \in 1..n |->
                  g.syncHistory[(g.syncHistoryIdx - 1 - (i - 1)) % syncHistorySize]]
    IN  SelectSeq(all, LAMBDA e : e.location # <<>>)

\* trace.GoState.Executing()
Executing(s) == s \in {"Running", "Syscall"}

\* body of the event loop for one goroutine state transition
\* faulty variant: the first event of a goroutine counts as its birth
OnCreate_FirstEvent(g, from, stk) ==
    IF from = "NotExist" \/ from = "Undetermined"
    THEN LET x == extractStack(stk)
         IN  [g EXCEPT !.creationStack = x.stack,
                       !.creationFunction = x.function,
                       !.creationLocation = x.location,
                       !.creationSeen = TRUE]
    ELSE g

OnCreate(g, from, stk) ==
    IF from = "NotExist"
    THEN LET x == extractStack(stk)
         IN  [g EXCEPT !.creationStack = x.stack,
                       !.creationFunction = x.function,
                       !.creationLocation = x.location,
                       !.creationSeen = TRUE]
    ELSE g

OnDeath(g, to) ==
    IF to = "NotExist" THEN [g EXCEPT !.goroutineDead = TRUE] ELSE g

\* faulty variant: the block is stamped one tick after the event that began it
OnBlock_StampedLate(g, from, to, reason, stk, t) ==
    IF Executing(from) /\ to = "Waiting"
    THEN LET x == extractStack(stk)
         IN  [g EXCEPT !.isBlocked = TRUE, !.reason = reason, !.blockStart = t + 1,
                       !.stack = x.stack, !.function = x.function,
                       !.location = x.location]
    ELSE g

OnBlock(g, from, to, reason, stk, t) ==
    IF Executing(from) /\ to = "Waiting"
    THEN LET x == extractStack(stk)
         IN  [g EXCEPT !.isBlocked = TRUE, !.reason = reason, !.blockStart = t,
                       !.stack = x.stack, !.function = x.function,
                       !.location = x.location]
    ELSE g

\* faulty variant: the latest completed sync block is kept, not the longest
RecordLongest_Latest(g, t) ==
    [g EXCEPT !.prevLongBlockReason = g.reason,
              !.prevLongBlockStack = g.stack,
              !.prevLongBlockFunction = g.function,
              !.prevLongBlockLocation = g.location,
              !.prevLongBlockDuration = t - g.blockStart]

\* faulty variant: a block as long as the longest so far is captured too
RecordLongest_Inclusive(g, t) ==
    LET dur == t - g.blockStart
    IN  IF dur >= g.prevLongBlockDuration
        THEN [g EXCEPT !.prevLongBlockReason = g.reason,
                       !.prevLongBlockStack = g.stack,
                       !.prevLongBlockFunction = g.function,
                       !.prevLongBlockLocation = g.location,
                       !.prevLongBlockDuration = dur]
        ELSE g

\* the unblock of a sync block: capture it when it is the longest so far
RecordLongest(g, t) ==
    LET dur == t - g.blockStart
    IN  IF dur > g.prevLongBlockDuration
        THEN [g EXCEPT !.prevLongBlockReason = g.reason,
                       !.prevLongBlockStack = g.stack,
                       !.prevLongBlockFunction = g.function,
                       !.prevLongBlockLocation = g.location,
                       !.prevLongBlockDuration = dur]
        ELSE g

\* faulty variant: the shortcut is refreshed only by an unblock with a location
PushHistory_SkipEmpty(g, t) ==
    LET pos == g.syncHistoryIdx % syncHistorySize
        g1  == [g EXCEPT !.syncHistory[pos] = [location |-> g.location, endTime |-> t],
                         !.syncHistoryIdx = g.syncHistoryIdx + 1]
    IN  IF g.location = <<>> THEN g1
        ELSE [g1 EXCEPT !.prevSyncLocation = g.location, !.prevSyncEndTime = t]

\* the unblock of a sync block: push it to the circular buffer and keep the
\* single-entry shortcut
PushHistory(g, t) ==
    LET pos == g.syncHistoryIdx % syncHistorySize
    IN  [g EXCEPT !.syncHistory[pos] = [location |-> g.location, endTime |-> t],
                  !.syncHistoryIdx = g.syncHistoryIdx + 1,
                  !.prevSyncLocation = g.location,
                  !.prevSyncEndTime = t]

RecordSync(g, t) == PushHistory(RecordLongest(g, t), t)

\* faulty variant: only a transition to an executing state counts as an unblock
OnUnblock_ExecutingOnly(g, from, to, t) ==
    IF from = "Waiting" /\ Executing(to)
    THEN LET g1 == IF g.isBlocked /\ g.reason = "sync" THEN RecordSync(g, t) ELSE g
         IN  [g1 EXCEPT !.isBlocked = FALSE, !.reason = "", !.stack = <<>>,
                        !.function = <<>>, !.location = <<>>]
    ELSE g

\* faulty variant: the unblock clears the block fields but leaves the flag set
OnUnblock_FlagKept(g, from, to, t) ==
    IF from = "Waiting" /\ (Executing(to) \/ to = "Runnable")
    THEN LET g1 == IF g.isBlocked /\ g.reason = "sync" THEN RecordSync(g, t) ELSE g
         IN  [g1 EXCEPT !.reason = "", !.stack = <<>>,
                        !.function = <<>>, !.location = <<>>]
    ELSE g

\* faulty variant: the unblock clears the flag and the reason but leaves the
\* stack, function and location of the block
OnUnblock_StackKept(g, from, to, t) ==
    IF from = "Waiting" /\ (Executing(to) \/ to = "Runnable")
    THEN LET g1 == IF g.isBlocked /\ g.reason = "sync" THEN RecordSync(g, t) ELSE g
         IN  [g1 EXCEPT !.isBlocked = FALSE, !.reason = ""]
    ELSE g

OnUnblock(g, from, to, t) ==
    IF from = "Waiting" /\ (Executing(to) \/ to = "Runnable")
    THEN LET g1 == IF g.isBlocked /\ g.reason = "sync" THEN RecordSync(g, t) ELSE g
         IN  [g1 EXCEPT !.isBlocked = FALSE, !.reason = "", !.stack = <<>>,
                        !.function = <<>>, !.location = <<>>]
    ELSE g

ApplyTransition(g, from, to, reason, stk, t) ==
    OnUnblock(OnBlock(OnDeath(OnCreate(g, from, stk), to), from, to, reason, stk, t),
              from, to, t)

----------------------------------------------------------------------------
(* Detectors (leaks.go, deadlock.go).  ord is the order in which the range *)
(* statement visits the goroutine map.                                     *)

MkFinding(kind, conf, gid, on, for, stk, fn, loc) ==
    [Kind |-> kind, Confidence |-> conf, GoroutineID |-> gid, BlockedOn |-> on,
     BlockedFor |-> for, Stack |-> stk, Function |-> fn, Location |-> loc]

IsChanReason(r) == r = "chan send" \/ r = "chan receive"

\* faulty variant: the blocking-stack filter is dropped
LeakSkipsStack_Never(g) == FALSE

\* detectLeaks, the filter on the blocking stack
LeakSkipsStack(g) == isRuntimeGoroutine(g.stack)

\* faulty variant: the provenance filter is applied to sync blocks as well
LeakSkipsProvenance_AllReasons(g) ==
    ~g.creationSeen \/ isNonTestRuntimeGoroutine(g.creationStack)

\* detectLeaks, the provenance filter
LeakSkipsProvenance(g) ==
    LET isChanBlock == IsChanReason(g.reason)
        isSyncBlock == g.reason = "sync"
    IN  \/ isChanBlock /\ ~g.creationSeen
        \/ isChanBlock /\ isNonTestRuntimeGoroutine(g.creationStack)
        \/ ~isChanBlock /\ ~isSyncBlock
           /\ (~g.creationSeen \/ isNonTestRuntimeGoroutine(g.creationStack))

\* faulty variant: the threshold is applied before the switch, to channel blocks too
LeakKind_ThresholdFirst(g, blocked, o) ==
    IF blocked < o.MinBlock THEN <<>>
    ELSE IF g.reason \in {"chan send", "chan receive"} THEN <<"goroutine_leak", "high">>
    ELSE <<"long_block", "medium">>

\* faulty variant: a block must exceed min_block to be reported
LeakKind_Strict(g, blocked, o) ==
    IF g.reason \in {"chan send", "chan receive"} THEN <<"goroutine_leak", "high">>
    ELSE IF blocked <= o.MinBlock THEN <<>>
    ELSE <<"long_block", "medium">>

\* detectLeaks, the switch on the reason: <<kind, confidence>>, or <<>> when
\* the block is below the threshold
LeakKind(g, blocked, o) ==
    IF g.reason \in {"chan send", "chan receive"} THEN <<"goroutine_leak", "high">>
    ELSE IF blocked < o.MinBlock THEN <<>>
    ELSE <<"long_block", "medium">>

\* one iteration of the loop of detectLeaks: the findings it appends
LeakStep(gid, g, lt, o) ==
    LET blocked == lt - g.blockStart
        kc      == LeakKind(g, blocked, o)
    IN  IF ~g.isBlocked THEN <<>>
        ELSE IF LeakSkipsStack(g) THEN <<>>
        ELSE IF g.reason = "sleep" THEN <<>>
        ELSE IF LeakSkipsProvenance(g) THEN <<>>
        ELSE IF kc = <<>> THEN <<>>
        ELSE <<MkFinding(kc[1], kc[2], gid, <<g.reason>>, blocked,
                         g.stack, g.function, g.location)>>

detectLeaks(gs, lt, o, ord) ==
    SeqConcat([i \in 1..Len(ord) |-> LeakStep(ord[i], gs[ord[i]], lt, o)])

\* faulty variant: a positive min_block replaces the threshold even when larger
DeadlockThresholdFor_MinBlockOnly(o) ==
    IF o.MinBlock > 0 THEN o.MinBlock ELSE deadlockThreshold

\* threshold computed at the top of detectDeadlocks
DeadlockThresholdFor(o) ==
    IF o.MinBlock > 0 /\ o.MinBlock < deadlockThreshold
    THEN o.MinBlock
    ELSE deadlockThreshold

DeadlockMember(g, lt, o) ==
    /\ g.isBlocked
    /\ ~isRuntimeGoroutine(g.stack)
    /\ g.reason = "sync"
    /\ ~(lt - g.blockStart < DeadlockThresholdFor(o))

\* groups[k]: the members with key k = (reason, location), in iteration order
DeadlockGroup(gs, lt, o, ord, loc) ==
    SelectSeq(ord, LAMBDA gid : DeadlockMember(gs[gid], lt, o)
                                 /\ gs[gid].location = loc)

DeadlockKeys(gs, lt, o) ==
    {gs[gid].location : gid \in {x \in DOMAIN gs : DeadlockMember(gs[x], lt, o)}}

\* faulty variant: the last member of the group is the representative
RECURSIVE DeadlockBest_Last(_, _, _, _)
DeadlockBest_Last(gs, lt, members, best) ==
    IF members = <<>> THEN best
    ELSE DeadlockBest_Last(gs, lt, Tail(members), Head(members))

\* the longest-blocked member, the earliest one on a tie
RECURSIVE DeadlockBest(_, _, _, _)
DeadlockBest(gs, lt, members, best) ==
    IF members = <<>> THEN best
    ELSE IF lt - gs[Head(members)].blockStart > lt - gs[best].blockStart
         THEN DeadlockBest(gs, lt, Tail(members), Head(members))
         ELSE DeadlockBest(gs, lt, Tail(members), best)

\* kord is the order in which the range statement visits the groups map
detectDeadlocks(gs, lt, o, ord, kord) ==
    [i \in 1..Len(kord) |->
        LET members == DeadlockGroup(gs, lt, o, ord, kord[i])
            best    == DeadlockBest(gs, lt, Tail(members), Head(members))
        IN  MkFinding("deadlock", "medium", best, <<"sync">>,
                      lt - gs[best].blockStart, gs[best].stack,
                      gs[best].function, gs[best].location)]

\* faulty variant: a goroutine that is dead or blocked again is passed over
RECURSIVE TransientScan_RunningOnly(_, _, _, _)
TransientScan_RunningOnly(gs, o, ord, seen) ==
    IF ord = <<>> THEN <<>>
    ELSE LET gid == Head(ord)
             g   == gs[gid]
         IN  IF g.prevLongBlockDuration < o.MinBlock \/ g.goroutineDead \/ g.isBlocked
                THEN TransientScan_RunningOnly(gs, o, Tail(ord), seen)
             ELSE IF isRuntimeGoroutine(g.prevLongBlockStack)
                THEN TransientScan_RunningOnly(gs, o, Tail(ord), seen)
             ELSE IF g.prevLongBlockLocation \in seen
                THEN TransientScan_RunningOnly(gs, o, Tail(ord), seen)
             ELSE <<MkFinding("long_block", "medium", gid, <<g.prevLongBlockReason>>,
                              g.prevLongBlockDuration, g.prevLongBlockStack,
                              g.prevLongBlockFunction, g.prevLongBlockLocation)>>
                  \o TransientScan_RunningOnly(gs, o, Tail(ord),
                                               seen \cup {g.prevLongBlockLocation})

RECURSIVE TransientScan(_, _, _, _)
TransientScan(gs, o, ord, seen) ==
    IF ord = <<>> THEN <<>>
    ELSE LET gid == Head(ord)
             g   == gs[gid]
         IN  IF g.prevLongBlockDuration < o.MinBlock
                THEN TransientScan(gs, o, Tail(ord), seen)
             ELSE IF isRuntimeGoroutine(g.prevLongBlockStack)
                THEN TransientScan(gs, o, Tail(ord), seen)
             ELSE IF g.prevLongBlockLocation \in seen
                THEN TransientScan(gs, o, Tail(ord), seen)
             ELSE <<MkFinding("long_block", "medium", gid, <<g.prevLongBlockReason>>,
                              g.prevLongBlockDuration, g.prevLongBlockStack,
                              g.prevLongBlockFunction, g.prevLongBlockLocation)>>
                  \o TransientScan(gs, o, Tail(ord),
                                   seen \cup {g.prevLongBlockLocation})

detectTransientBlocks(gs, o, ord) == TransientScan(gs, o, ord, {})

\* faulty variant: the blocking stack is not looked at
ABBAEdgesOf_AnyStack(gid, g, lt) ==
    IF ~g.isBlocked \/ g.reason # "sync" THEN <<>>
    ELSE LET hist == syncHistoryList(g)
             keep == SelectSeq(hist, LAMBDA e :
                        /\ ~(e.location = <<>> \/ e.location = g.location)
                        /\ ~(lt - e.endTime > abbaStaleWindow))
         IN  [i \in 1..Len(keep) |->
                [from |-> keep[i].location, to |-> g.location, gid |-> gid]]

\* the lock edges one goroutine contributes in detectABBA
ABBAEdgesOf(gid, g, lt) ==
    IF ~g.isBlocked \/ g.reason # "sync" THEN <<>>
    ELSE IF isRuntimeGoroutine(g.stack) THEN <<>>
    ELSE LET hist == syncHistoryList(g)
             keep == SelectSeq(hist, LAMBDA e :
                        /\ ~(e.location = <<>> \/ e.location = g.location)
                        /\ ~(lt - e.endTime > abbaStaleWindow))
         IN  [i \in 1..Len(keep) |->
                [from |-> keep[i].location, to |-> g.location, gid |-> gid]]

ABBAEdges(gs, lt, ord) ==
    SeqConcat([i \in 1..Len(ord) |-> ABBAEdgesOf(ord[i], gs[ord[i]], lt)])

\* faulty variant: inverse pairs are not deduplicated
RECURSIVE ABBAScan_NoSeen(_, _, _, _, _, _)
ABBAScan_NoSeen(gs, lt, edges, i, j, seen) ==
    IF i > Len(edges) THEN <<>>
    ELSE IF j > Len(edges) THEN ABBAScan_NoSeen(gs, lt, edges, i + 1, i + 2, seen)
    ELSE LET e1 == edges[i]
             e2 == edges[j]
             g  == gs[e1.gid]
         IN  IF e1.from # e2.to \/ e1.to # e2.from
                THEN ABBAScan_NoSeen(gs, lt, edges, i, j + 1, seen)
             ELSE <<MkFinding("deadlock", "medium", e1.gid,
                              <<"sync (AB-BA lock inversion)">>,
                              lt - g.blockStart, g.stack, g.function, g.location)>>
                  \o ABBAScan_NoSeen(gs, lt, edges, i, j + 1, seen)

\* the double loop over edge pairs i < j; seen holds the canonical keys
\* (the two locations of a pair, whichever way round)
RECURSIVE ABBAScan(_, _, _, _, _, _)
ABBAScan(gs, lt, edges, i, j, seen) ==
    IF i > Len(edges) THEN <<>>
    ELSE IF j > Len(edges) THEN ABBAScan(gs, lt, edges, i + 1, i + 2, seen)
    ELSE LET e1 == edges[i]
             e2 == edges[j]
             k  == {e1.from, e1.to}
             g  == gs[e1.gid]
         IN  IF e1.from # e2.to \/ e1.to # e2.from
                THEN ABBAScan(gs, lt, edges, i, j + 1, seen)
             ELSE IF k \in seen
                THEN ABBAScan(gs, lt, edges, i, j + 1, seen)
             ELSE <<MkFinding("deadlock", "medium", e1.gid,
                              <<"sync (AB-BA lock inversion)">>,
                              lt - g.blockStart, g.stack, g.function, g.location)>>
                  \o ABBAScan(gs, lt, edges, i, j + 1, seen \cup {k})

detectABBA(gs, lt, ord) == ABBAScan(gs, lt, ABBAEdges(gs, lt, ord), 1, 2, {})

\* faulty variant: a sync waiter counts whatever its blocking stack
LockWaiters_AnyStack(gs) ==
    {gs[gid].location : gid \in {x \in DOMAIN gs :
        gs[x].isBlocked /\ gs[x].reason = "sync"}}

\* sync call sites at which some goroutine waits for the lock
LockWaiters(gs) ==
    {gs[gid].location : gid \in {x \in DOMAIN gs :
        /\ gs[x].isBlocked /\ gs[x].reason = "sync"
        /\ ~isRuntimeGoroutine(gs[x].stack)}}

\* faulty variant: findings are not deduplicated by prevSyncLocation
RECURSIVE ChanLockScan_NoSeen(_, _, _, _)
ChanLockScan_NoSeen(gs, lt, ord, seen) ==
    IF ord = <<>> THEN <<>>
    ELSE LET gid  == Head(ord)
             g    == gs[gid]
             skip == \/ ~g.isBlocked
                     \/ ~IsChanReason(g.reason)
                     \/ g.prevSyncLocation = <<>>
                     \/ isRuntimeGoroutine(g.stack)
                     \/ lt - g.prevSyncEndTime > abbaStaleWindow
                     \/ g.prevSyncLocation \notin LockWaiters(gs)
         IN  IF skip THEN ChanLockScan_NoSeen(gs, lt, Tail(ord), seen)
             ELSE <<MkFinding("deadlock", "medium", gid,
                      <<g.reason, " (holds lock; lock waiter cannot unblock channel)">>,
                      lt - g.blockStart, g.stack, g.function, g.location)>>
                  \o ChanLockScan_NoSeen(gs, lt, Tail(ord), seen)

\* the loop over the goroutine map; seen holds the lock sites already reported
RECURSIVE ChanLockScan(_, _, _, _)
ChanLockScan(gs, lt, ord, seen) ==
    IF ord = <<>> THEN <<>>
    ELSE LET gid  == Head(ord)
             g    == gs[gid]
             skip == \/ ~g.isBlocked
                     \/ ~IsChanReason(g.reason)
                     \/ g.prevSyncLocation = <<>>
                     \/ isRuntimeGoroutine(g.stack)
                     \/ lt - g.prevSyncEndTime > abbaStaleWindow
                     \/ g.prevSyncLocation \notin LockWaiters(gs)
                     \/ g.prevSyncLocation \in seen
         IN  IF skip THEN ChanLockScan(gs, lt, Tail(ord), seen)
             ELSE <<MkFinding("deadlock", "medium", gid,
                      <<g.reason, " (holds lock; lock waiter cannot unblock channel)">>,
                      lt - g.blockStart, g.stack, g.function, g.location)>>
                  \o ChanLockScan(gs, lt, Tail(ord), seen \cup {g.prevSyncLocation})

detectChanLockCycle(gs, lt, ord) == ChanLockScan(gs, lt, ord, {})

\* faulty variant: an orphan is reported with the confidence of a long block
OrphanStep_Medium(gid, g, traceDuration) ==
    IF g.goroutineDead THEN <<>>
    ELSE IF g.isBlocked THEN <<>>
    ELSE IF ~g.creationSeen THEN <<>>
    ELSE IF isNonTestRuntimeGoroutine(g.creationStack) THEN <<>>
    ELSE IF isRuntimeGoroutine(g.stack) /\ g.creationFunction = <<>> THEN <<>>
    ELSE <<MkFinding("goroutine_leak", "medium", gid,
                     <<"never ran (test exited before goroutine was scheduled)">>,
                     traceDuration, g.creationStack, g.creationFunction,
                     g.creationLocation)>>

\* one iteration of the loop of detectOrphans: the findings it appends
OrphanStep(gid, g, traceDuration) ==
    IF g.goroutineDead THEN <<>>
    ELSE IF g.isBlocked THEN <<>>
    ELSE IF ~g.creationSeen THEN <<>>
    ELSE IF isNonTestRuntimeGoroutine(g.creationStack) THEN <<>>
    ELSE IF isRuntimeGoroutine(g.stack) /\ g.creationFunction = <<>> THEN <<>>
    ELSE <<MkFinding("goroutine_leak", "low", gid,
                     <<"never ran (test exited before goroutine was scheduled)">>,
                     traceDuration, g.creationStack, g.creationFunction,
                     g.creationLocation)>>

\* faulty variant: a trace of exactly 200 ms still counts as short
detectOrphans_Inclusive(gs, traceDuration, ord) ==
    IF traceDuration > orphanWindow THEN <<>>
    ELSE SeqConcat([i \in 1..Len(ord) |-> OrphanStep(ord[i], gs[ord[i]], traceDuration)])

detectOrphans(gs, traceDuration, ord) ==
    IF traceDuration >= orphanWindow THEN <<>>
    ELSE SeqConcat([i \in 1..Len(ord) |-> OrphanStep(ord[i], gs[ord[i]], traceDuration)])

----------------------------------------------------------------------------
(* Analyze: the event loop and the detection pass                          *)

\* goroutine state transitions a trace reader delivers; "none" is the state
\* of a goroutine the trace has not mentioned yet
Transitions(s) ==
    CASE s = "none"     -> {<<"NotExist", "Runnable">>, <<"NotExist", "Waiting">>,
                            <<"NotExist", "Syscall">>,
                            <<"Undetermined", "Runnable">>, <<"Undetermined", "Running">>,
                            <<"Undetermined", "Syscall">>, <<"Undetermined", "Waiting">>}
      [] s = "Runnable" -> {<<"Runnable", "Running">>}
      [] s = "Running"  -> {<<"Running", "Runnable">>, <<"Running", "Waiting">>,
                            <<"Running", "Syscall">>, <<"Running", "NotExist">>}
      [] s = "Syscall"  -> {<<"Syscall", "Running">>, <<"Syscall", "Runnable">>,
                            <<"Syscall", "NotExist">>}
      [] s = "Waiting"  -> {<<"Waiting", "Runnable">>, <<"Waiting", "Running">>}
      [] OTHER          -> {}

NilResult == [DurationMs |-> 0, GoroutinesAnalyzed |-> 0, Findings |-> <<>>]

NoBlock == [reason |-> "", stack |-> <<>>, start |-> 0]

\* what the events themselves show of one goroutine: the block that is open,
\* the number of Executing->Waiting transitions, the target of the latest
\* unblock, the completed sync blocks, oldest first, whether its creation was
\* seen, and whether a later event moved it into an executing state
LogBlock(l, from, to, reason, stk, t) ==
    LET l1 == [l EXCEPT !.born = l.born \/ from = "NotExist",
                        !.ran = l.ran \/ (Executing(to) /\ from # "NotExist")]
    IN  IF Executing(from) /\ to = "Waiting"
        THEN [l1 EXCEPT !.open = [reason |-> reason, stack |-> stk, start |-> t],
                        !.blocks = l.blocks + 1]
        ELSE IF from = "Waiting" /\ to \in {"Running", "Syscall", "Runnable"}
        THEN [l1 EXCEPT !.open = NoBlock,
                        !.woke = IF l.open = NoBlock THEN l.woke ELSE to,
                        !.done = IF l.open.reason = "sync"
                                 THEN Append(l.done, [stack |-> l.open.stack,
                                                      start |-> l.open.start,
                                                      end |-> t])
                                 ELSE l.done]
        ELSE l1

NewLog ==
    [open |-> NoBlock, blocks |-> 0, woke |-> "", done |-> <<>>,
     born |-> FALSE, ran |-> FALSE]

\* one iteration of the loop on a goroutine state transition
ReadTransition(A) ==
    /\ pc = "reading"
    /\ nread < A.max
    /\ \E gid \in A.ids, d \in A.deltas :
       \E tr \in Transitions(gstate[gid]) \cap A.trans :
       \E reason \in (IF tr[2] = "Waiting" THEN A.reasons ELSE {""}) :
       \E stk \in (IF tr[1] = "NotExist" THEN A.cstacks
                    ELSE IF tr[2] = "Waiting" THEN A.stacks ELSE {<<>>}) :
          LET t == IF first THEN 1 + d ELSE lastTime + d
              g == IF gid \in DOMAIN goroutines THEN goroutines[gid]
                   ELSE NewGoroutineState
              l == IF gid \in DOMAIN syncLog THEN syncLog[gid] ELSE NewLog
          IN  /\ firstTime' = IF first THEN t ELSE firstTime
              /\ first' = FALSE
              /\ lastTime' = t
              /\ goroutines' = [x \in DOMAIN goroutines \cup {gid} |->
                                  IF x = gid
                                  THEN ApplyTransition(g, tr[1], tr[2], reason, stk, t)
                                  ELSE goroutines[x]]
              /\ syncLog' = [x \in DOMAIN syncLog \cup {gid} |->
                                  IF x = gid
                                  THEN LogBlock(l, tr[1], tr[2], reason, stk, t)
                                  ELSE syncLog[x]]
              /\ gstate' = [gstate EXCEPT ![gid] = tr[2]]
    /\ nread' = nread + 1
    /\ UNCHANGED <<pc, result, opts, stderr, run, static, classified>>

\* faulty variant: an event that is no goroutine transition is dropped before
\* its timestamp is taken
ReadOther_Dropped(A) ==
    /\ pc = "reading"
    /\ nread < A.max
    /\ nread' = nread + 1
    /\ UNCHANGED <<goroutines, firstTime, lastTime, first, pc, result, opts, gstate,
                   syncLog, stderr, run, static, classified>>

\* one iteration of the loop on any other event
ReadOther(A) ==
    /\ pc = "reading"
    /\ nread < A.max
    /\ \E d \in A.deltas :
          LET t == IF first THEN 1 + d ELSE lastTime + d
          IN  /\ firstTime' = IF first THEN t ELSE firstTime
              /\ first' = FALSE
              /\ lastTime' = t
    /\ nread' = nread + 1
    /\ UNCHANGED <<goroutines, pc, result, opts, gstate, syncLog, stderr, run,
                   static, classified>>

LeakOuts ==
    {detectLeaks(goroutines, lastTime, opts, ord) : ord \in Perms(DOMAIN goroutines)}

DeadlockOuts ==
    {detectDeadlocks(goroutines, lastTime, opts, ord, kord) :
        ord \in Perms(DOMAIN goroutines),
        kord \in Perms(DeadlockKeys(goroutines, lastTime, opts))}

TransientOuts ==
    {detectTransientBlocks(goroutines, opts, ord) : ord \in Perms(DOMAIN goroutines)}

ABBAOuts ==
    {detectABBA(goroutines, lastTime, ord) : ord \in Perms(DOMAIN goroutines)}

ChanLockOuts ==
    {detectChanLockCycle(goroutines, lastTime, ord) : ord \in Perms(DOMAIN goroutines)}

OrphanOuts ==
    {detectOrphans(goroutines, lastTime - firstTime, ord) :
        ord \in Perms(DOMAIN goroutines)}

\* printDebugFiltered, first loop: the status printed for a blocked goroutine
DebugStatus(g) ==
    LET runtimeBlocking == isRuntimeGoroutine(g.stack)
        runtimeCreation == ~g.creationSeen \/ isRuntimeGoroutine(g.creationStack)
        isChan          == g.reason = "chan send" \/ g.reason = "chan receive"
        filterReason    ==
            IF runtimeBlocking THEN "blocking-stack=runtime"
            ELSE IF g.reason = "sleep" THEN "reason=sleep"
            ELSE IF isChan /\ runtimeCreation THEN "chan-block+creation-stack=runtime"
            ELSE IF ~isChan /\ g.reason # "sync" /\ runtimeCreation
                 THEN "non-chan-sync-block+creation-stack=runtime"
            ELSE ""
    IN  IF filterReason # "" THEN <<"FILTERED(", filterReason, ")">>
        ELSE <<"REPORTED">>

\* the lines printDebugFiltered writes, as a set (they come in map order);
\* the location column and the stack lines under each entry are left out
printDebugFiltered(gs, lt, traceDuration) ==
    [blocked |-> {[gid |-> gid, reason |-> gs[gid].reason,
                   blocked |-> lt - gs[gid].blockStart,
                   status |-> DebugStatus(gs[gid])] :
                     gid \in {x \in DOMAIN gs : gs[x].isBlocked}},
     alive   |-> {[gid |-> gid,
                   runtimeCreation |-> isRuntimeGoroutine(gs[gid].creationStack)] :
                     gid \in {x \in DOMAIN gs :
                        ~(gs[x].isBlocked \/ gs[x].goroutineDead \/ ~gs[x].creationSeen)}}]

NoDump == [blocked |-> {}, alive |-> {}]

\* the Results the detection pass can return under options o, one for each
\* choice of iteration orders
AnalyzeResults(o) ==
    {[DurationMs |-> (lastTime - firstTime) \div 1000,
      GoroutinesAnalyzed |-> Cardinality(DOMAIN goroutines),
      Findings |-> f1 \o f2 \o f3 \o f4 \o f5 \o f6] :
        f1 \in {detectLeaks(goroutines, lastTime, o, ord) :
                    ord \in Perms(DOMAIN goroutines)},
        f2 \in {detectDeadlocks(goroutines, lastTime, o, ord, kord) :
                    ord \in Perms(DOMAIN goroutines),
                    kord \in Perms(DeadlockKeys(goroutines, lastTime, o))},
        f3 \in {detectTransientBlocks(goroutines, o, ord) :
                    ord \in Perms(DOMAIN goroutines)},
        f4 \in ABBAOuts, f5 \in ChanLockOuts, f6 \in OrphanOuts}

\* faulty variant: a call-site deadlock is dropped when detectLeaks has already
\* reported the goroutine
Detect_Dedup(warned) ==
    /\ \E f1 \in LeakOuts, f2 \in DeadlockOuts, f3 \in TransientOuts,
          f4 \in ABBAOuts, f5 \in ChanLockOuts, f6 \in OrphanOuts :
          result' = [DurationMs |-> (lastTime - firstTime) \div 1000,
                     GoroutinesAnalyzed |-> Cardinality(DOMAIN goroutines),
                     Findings |-> f1
                        \o SelectSeq(f2, LAMBDA f :
                              \A i \in DOMAIN f1 : f1[i].GoroutineID # f.GoroutineID)
                        \o f3 \o f4 \o f5 \o f6]
    /\ stderr' = [warned |-> warned,
                  dump |-> IF opts.DebugFiltered
                           THEN printDebugFiltered(goroutines, lastTime,
                                                   lastTime - firstTime)
                           ELSE NoDump]
    /\ pc' = "done"
    /\ UNCHANGED <<goroutines, firstTime, lastTime, first, opts, gstate, nread,
                   syncLog, run, static, classified>>

\* faulty variant: with the dump switched on, the blocked goroutines it lists
\* are taken off the records before the detectors run
Detect_DumpConsumes(warned) ==
    /\ LET gs == IF opts.DebugFiltered
                 THEN [x \in DOMAIN goroutines |->
                         [goroutines[x] EXCEPT !.isBlocked = FALSE]]
                 ELSE goroutines
       IN  /\ \E ord \in Perms(DOMAIN gs) :
                 result' = [DurationMs |-> (lastTime - firstTime) \div 1000,
                            GoroutinesAnalyzed |-> Cardinality(DOMAIN gs),
                            Findings |-> detectLeaks(gs, lastTime, opts, ord)]
           /\ goroutines' = gs
    /\ stderr' = [warned |-> warned,
                  dump |-> IF opts.DebugFiltered
                           THEN printDebugFiltered(goroutines, lastTime,
                                                   lastTime - firstTime)
                           ELSE NoDump]
    /\ pc' = "done"
    /\ UNCHANGED <<firstTime, lastTime, first, opts, gstate, nread,
                   syncLog, run, static, classified>>

\* after the loop: the optional dump, the six detectors, the Result
Detect(warned) ==
    /\ \E f1 \in LeakOuts, f2 \in DeadlockOuts, f3 \in TransientOuts,
          f4 \in ABBAOuts, f5 \in ChanLockOuts, f6 \in OrphanOuts :
          result' = [DurationMs |-> (lastTime - firstTime) \div 1000,
                     GoroutinesAnalyzed |-> Cardinality(DOMAIN goroutines),
                     Findings |-> f1 \o f2 \o f3 \o f4 \o f5 \o f6]
    /\ stderr' = [warned |-> warned,
                  dump |-> IF opts.DebugFiltered
                           THEN printDebugFiltered(goroutines, lastTime,
                                                   lastTime - firstTime)
                           ELSE NoDump]
    /\ pc' = "done"
    /\ UNCHANGED <<goroutines, firstTime, lastTime, first, opts, gstate, nread,
                   syncLog, run, static, classified>>

\* the reader reports EOF: the loop ends and the detectors run
Finish ==
    /\ pc = "reading"
    /\ Detect(FALSE)

\* faulty variant: a read error makes Analyze give up what it has collected
ReadError_Abort ==
    /\ pc = "reading"
    /\ result' = NilResult
    /\ stderr' = [warned |-> TRUE, dump |-> NoDump]
    /\ pc' = "done"
    /\ UNCHANGED <<goroutines, firstTime, lastTime, first, opts, gstate, nread,
                   syncLog, run, static, classified>>

\* the reader reports an error other than EOF: a warning is logged, the loop
\* ends and the detectors run
ReadError ==
    /\ pc = "reading"
    /\ Detect(TRUE)

\* runRun before its first capture pass: its position, the CPU count, the
\* index of the next retry value, the capture passes made so far, the trace
\* files on disk, the file to remove at return, and whether it returned an
\* error
NewRun ==
    [pc |-> "start", numCPU |-> 0, next |-> 1, passes |-> <<>>, files |-> {},
     traceToClean |-> 0, err |-> FALSE]

\* no stack has been rendered or classified yet
NoStack ==
    [pc |-> "idle", frames |-> <<>>, stack |-> <<>>, function |-> <<>>,
     location |-> <<>>, runtimeOnly |-> FALSE, nonTestRuntimeOnly |-> FALSE]

\* the static pass before it is given a function
NoStatic ==
    [pc |-> "idle", fn |-> <<>>, sites |-> <<>>, ls |-> <<0, 0>>, visited |-> {},
     queue |-> <<>>, enqueued |-> <<>>, findings |-> <<>>]

\* every variable but the static pass
InitDynamic(ids, minBlocks, debugs) ==
    /\ goroutines = <<>>
    /\ syncLog = <<>>
    /\ firstTime = 0
    /\ lastTime = 0
    /\ first = TRUE
    /\ pc = "reading"
    /\ result = NilResult
    /\ opts \in [MinBlock : minBlocks, DebugFiltered : debugs]
    /\ gstate = [gid \in ids |-> "none"]
    /\ nread = 0
    /\ stderr = [warned |-> FALSE, dump |-> NoDump]
    /\ run = NewRun
    /\ classified = NoStack

InitOpts(ids, minBlocks, debugs) ==
    /\ InitDynamic(ids, minBlocks, debugs)
    /\ static = NoStatic

InitWith(ids, minBlocks) == InitOpts(ids, minBlocks, {FALSE})

AllTransitions ==
    UNION {Transitions(s) : s \in {"none", "Runnable", "Running", "Syscall", "Waiting"}}

AllReasons == {"chan send", "chan receive", "sync", "sleep", "select"}

----------------------------------------------------------------------------
(* Analyze on short traces of two goroutines                               *)

MaxEvents == 6

MainA ==
    [ids |-> {1, 2},
     trans |-> {<<"NotExist", "Runnable">>, <<"Undetermined", "Running">>,
                <<"Runnable", "Running">>, <<"Running", "Waiting">>,
                <<"Waiting", "Runnable">>},
     reasons |-> {"chan send", "chan receive", "sync", "sleep", "select"},
     stacks |-> {StackA, StackRT}, cstacks |-> {StackC, StackTst, StackRT},
     deltas |-> {600000}, max |-> MaxEvents]

Init == InitWith(MainA.ids, {0, 1000000})

Next == ReadTransition(MainA) \/ Finish

Spec == Init /\ [][Next]_vars

Findings == {result.Findings[i] : i \in DOMAIN result.Findings}

IsChanLeak(f) == f.Kind = "goroutine_leak" /\ f.Confidence = "high"

\* the site of the block the events show a goroutine to be in
OpenBlockSite(gid) == extractStack(syncLog[gid].open.stack).location

\* C1: every GoroutineLeak/High finding of a Result names a goroutine that is
\* blocked after the last event, on chan send or chan receive, with a
\* blocking stack that is not runtime-only.
C1_ChanLeakIsBlockedOnChan ==
    pc = "done" =>
        \A f \in Findings :
            IsChanLeak(f) =>
                /\ f.GoroutineID \in DOMAIN goroutines
                /\ goroutines[f.GoroutineID].isBlocked
                /\ gstate[f.GoroutineID] = "Waiting"
                /\ goroutines[f.GoroutineID].reason \in {"chan send", "chan receive"}
                /\ ~isRuntimeGoroutine(goroutines[f.GoroutineID].stack)

C1_Witness ==
    /\ pc = "done"
    /\ \E f \in Findings : IsChanLeak(f) /\ f.BlockedOn = <<"chan receive">>

\* the goroutines C2 is about: blocked on a channel operation, user code on
\* the blocking stack, birth observed, creation stack not non-test runtime
ChanLeakCandidate(gid) ==
    LET g == goroutines[gid]
    IN  /\ g.isBlocked
        /\ g.reason \in {"chan send", "chan receive"}
        /\ ~isRuntimeGoroutine(g.stack)
        /\ g.creationSeen
        /\ ~isNonTestRuntimeGoroutine(g.creationStack)

\* C2: each such goroutine gets exactly one GoroutineLeak/High finding from
\* detectLeaks, whatever its blocked duration and min_block, located at its
\* blocking call site, and no LongBlock from detectLeaks.
C2_ChanLeakReportedOnce ==
    pc = "done" =>
        \A gid \in DOMAIN goroutines :
            ChanLeakCandidate(gid) =>
                /\ \A fs \in LeakOuts :
                      /\ Cardinality({i \in DOMAIN fs :
                            fs[i].GoroutineID = gid /\ IsChanLeak(fs[i])}) = 1
                      /\ \A i \in DOMAIN fs :
                            fs[i].GoroutineID = gid =>
                                /\ fs[i].Kind # "long_block"
                                /\ fs[i].Location = OpenBlockSite(gid)
                                /\ fs[i].Location # <<>>
                /\ Cardinality({i \in DOMAIN result.Findings :
                        /\ result.Findings[i].GoroutineID = gid
                        /\ IsChanLeak(result.Findings[i])}) = 1

C2_Witness ==
    /\ pc = "done"
    /\ opts.MinBlock = 1000000
    /\ \A gid \in {1, 2} :
          /\ gid \in DOMAIN goroutines
          /\ ChanLeakCandidate(gid)
          /\ goroutines[gid].location = FrameLocation(FrameA)
    /\ goroutines[1].blockStart = lastTime
    /\ goroutines[2].blockStart < lastTime
    /\ Cardinality({i \in DOMAIN result.Findings : IsChanLeak(result.Findings[i])}) = 2

----------------------------------------------------------------------------
(* The state engine on longer traces of one goroutine                      *)

EngineEvents == 7

EngineA ==
    [ids |-> {1}, trans |-> AllTransitions, reasons |-> {"sync", "chan send"},
     stacks |-> {StackA, StackB, StackRT}, cstacks |-> {StackC, StackRT},
     deltas |-> {0, 600000}, max |-> EngineEvents]

InitEngine == InitWith(EngineA.ids, {-1000, 0, 1000000})

NextEngine == ReadTransition(EngineA) \/ Finish

SpecEngine == InitEngine /\ [][NextEngine]_vars

\* a goroutine whose last Executing->Waiting transition was followed by an
\* unblock
Unblocked(gid) ==
    /\ gid \in DOMAIN syncLog
    /\ syncLog[gid].blocks > 0
    /\ syncLog[gid].open = NoBlock

\* C3: a goroutine whose last block was followed by Waiting->Executing or
\* Waiting->Runnable is not blocked in the final state, and no finding of
\* detectLeaks, detectDeadlocks, detectABBA or detectChanLockCycle names it.
C3_UnblockedIsNotReported ==
    \A gid \in DOMAIN goroutines :
        Unblocked(gid) =>
            /\ ~goroutines[gid].isBlocked
            /\ pc = "done" =>
                  \A fs \in LeakOuts \cup DeadlockOuts \cup ABBAOuts \cup ChanLockOuts :
                      \A i \in DOMAIN fs : fs[i].GoroutineID # gid

C3_Witness ==
    /\ pc = "done"
    /\ Unblocked(1)
    /\ syncLog[1].woke = "Runnable"
    /\ gstate[1] = "Runnable"
    /\ syncLog[1].blocks = 2

\* C4: a goroutine record with dead = true has is_blocked = false.
C4_DeadIsNotBlocked ==
    \A gid \in DOMAIN goroutines :
        goroutines[gid].goroutineDead => ~goroutines[gid].isBlocked

C4_Witness ==
    /\ 1 \in DOMAIN goroutines
    /\ goroutines[1].goroutineDead
    /\ syncLog[1].blocks > 0
    /\ gstate[1] = "NotExist"

\* C5 as stated: is_blocked is true exactly when reason and block_start are
\* set; a goroutine that is not blocked has neither set.
C5_BlockedIffReasonAndStart ==
    \A gid \in DOMAIN goroutines :
        LET g == goroutines[gid]
        IN  /\ g.isBlocked => (g.reason # "" /\ g.blockStart # 0)
            /\ ~g.isBlocked => (g.reason = "" /\ g.blockStart = 0)

\* duration of a completed sync block of the log, and the largest of them
BlockDur(b) == b.end - b.start

MaxBlockDur(done) ==
    IF done = <<>> THEN 0
    ELSE CHOOSE d \in {BlockDur(done[i]) : i \in DOMAIN done} :
            \A i \in DOMAIN done : BlockDur(done[i]) <= d

\* the prev_long fields of a record are those of the completed block b
PrevLongIs(g, b) ==
    /\ g.prevLongBlockReason = "sync"
    /\ g.prevLongBlockStack = extractStack(b.stack).stack
    /\ g.prevLongBlockFunction = extractStack(b.stack).function
    /\ g.prevLongBlockLocation = extractStack(b.stack).location

PrevLongNeverDecreases ==
    \A gid \in DOMAIN goroutines :
        goroutines'[gid].prevLongBlockDuration >= goroutines[gid].prevLongBlockDuration

\* C6 as stated: prev_long_duration is the largest duration of the sync blocks
\* whose unblock was observed (0 when there is none), it never decreases, and
\* the other prev_long fields are those of a block that attained it.
C6_PrevLongIsOfALongestBlock ==
    /\ [](\A gid \in DOMAIN goroutines :
            LET g    == goroutines[gid]
                done == syncLog[gid].done
            IN  /\ g.prevLongBlockDuration = MaxBlockDur(done)
                /\ done # <<>> =>
                      \E i \in DOMAIN done :
                          /\ BlockDur(done[i]) = MaxBlockDur(done)
                          /\ PrevLongIs(g, done[i]))
    /\ [][PrevLongNeverDecreases]_vars

\* C6 amended: the other prev_long fields are those of the earliest block that
\* attained the largest duration when that duration is positive, and are all
\* empty while it is 0.
C6_PrevLongIsOfFirstLongestBlock ==
    /\ [](\A gid \in DOMAIN goroutines :
            LET g    == goroutines[gid]
                done == syncLog[gid].done
                m    == MaxBlockDur(done)
            IN  /\ g.prevLongBlockDuration = m
                /\ m > 0 =>
                      \E i \in DOMAIN done :
                          /\ BlockDur(done[i]) = m
                          /\ \A j \in 1..(i - 1) : BlockDur(done[j]) < m
                          /\ PrevLongIs(g, done[i])
                /\ m = 0 =>
                      /\ g.prevLongBlockReason = ""
                      /\ g.prevLongBlockStack = <<>>
                      /\ g.prevLongBlockFunction = <<>>
                      /\ g.prevLongBlockLocation = <<>>)
    /\ [][PrevLongNeverDecreases]_vars

C6_Witness ==
    /\ 1 \in DOMAIN goroutines
    /\ Len(syncLog[1].done) = 3
    /\ BlockDur(syncLog[1].done[1]) = 0
    /\ BlockDur(syncLog[1].done[2]) > 0
    /\ BlockDur(syncLog[1].done[3]) = BlockDur(syncLog[1].done[2])
    /\ syncLog[1].done[3].stack # syncLog[1].done[2].stack
    /\ goroutines[1].prevLongBlockLocation = FrameLocation(FrameA)

\* the entry the latest push wrote to the circular buffer
LatestEntry(g) == g.syncHistory[(g.syncHistoryIdx - 1) % syncHistorySize]

\* C7 as stated: the history holds at most five entries and prev_sync_location
\* and prev_sync_end_time equal the first entry history iteration returns.
C7_PrevSyncIsFirstListedEntry ==
    \A gid \in DOMAIN goroutines :
        LET g == goroutines[gid]
            h == syncHistoryList(g)
        IN  /\ Len(h) <= 5
            /\ h # <<>> =>
                  /\ g.prevSyncLocation = h[1].location
                  /\ g.prevSyncEndTime = h[1].endTime

\* C7 amended: prev_sync_location and prev_sync_end_time equal the entry
\* written by the latest sync unblock, whose location may be empty; they
\* equal the first entry history iteration returns when that location is
\* not empty, and are unset before the first sync unblock.
C7_PrevSyncIsLatestEntry ==
    \A gid \in DOMAIN goroutines :
        LET g    == goroutines[gid]
            h    == syncHistoryList(g)
            done == syncLog[gid].done
        IN  /\ Len(h) <= 5
            /\ Len(done) = g.syncHistoryIdx
            /\ done = <<>> => (g.prevSyncLocation = <<>> /\ g.prevSyncEndTime = 0)
            /\ done # <<>> =>
                  /\ g.prevSyncLocation = extractStack(done[Len(done)].stack).location
                  /\ g.prevSyncEndTime = done[Len(done)].end
                  /\ LatestEntry(g) = [location |-> g.prevSyncLocation,
                                       endTime |-> g.prevSyncEndTime]
            /\ g.prevSyncLocation # <<>> =>
                  h[1] = [location |-> g.prevSyncLocation,
                          endTime |-> g.prevSyncEndTime]

C7_Witness ==
    /\ 1 \in DOMAIN goroutines
    /\ goroutines[1].syncHistoryIdx = 2
    /\ goroutines[1].prevSyncLocation = <<>>
    /\ goroutines[1].prevSyncEndTime > 0
    /\ syncHistoryList(goroutines[1]) # <<>>
    /\ syncHistoryList(goroutines[1])[1].endTime < goroutines[1].prevSyncEndTime

----------------------------------------------------------------------------
(* The sync history on traces long enough to wrap the buffer               *)

HistoryEvents == 13

HistoryA ==
    [ids |-> {1},
     trans |-> {<<"Undetermined", "Running">>, <<"Running", "Waiting">>,
                <<"Waiting", "Running">>, <<"Waiting", "Runnable">>,
                <<"Runnable", "Running">>},
     reasons |-> {"sync", "chan send"},
     stacks |-> {StackA, StackB, StackRT}, cstacks |-> {StackC},
     deltas |-> {600000}, max |-> HistoryEvents]

InitHistory == InitWith(HistoryA.ids, {1000000})

NextHistory == ReadTransition(HistoryA) \/ Finish

SpecHistory == InitHistory /\ [][NextHistory]_vars

\* the entry a completed sync block of the log leaves in the history
EntryOf(b) == [location |-> extractStack(b.stack).location, endTime |-> b.end]

\* the min(n, 5) most recent of the n completed sync blocks, most recent
\* first, those with an empty location left out
RecentEntries(done) ==
    LET n == Len(done)
        k == IF n < syncHistorySize THEN n ELSE syncHistorySize
    IN  SelectSeq([i \in 1..k |-> EntryOf(done[n + 1 - i])],
                  LAMBDA e : e.location # <<>>)

\* C8: after n observed sync unblocks, history iteration yields exactly the
\* entries of the min(n, 5) most recent ones that have a location, most
\* recent first; older ones are gone and unused slots are never returned.
C8_HistoryListIsRecentEntries ==
    \A gid \in DOMAIN goroutines :
        syncHistoryList(goroutines[gid]) = RecentEntries(syncLog[gid].done)

C8_Witness ==
    /\ 1 \in DOMAIN goroutines
    /\ Len(syncLog[1].done) = 6
    /\ EntryOf(syncLog[1].done[1]).location = FrameLocation(FrameB)
    /\ \A i \in 2..6 : EntryOf(syncLog[1].done[i]).location # FrameLocation(FrameB)
    /\ EntryOf(syncLog[1].done[4]).location = <<>>
    /\ Len(syncHistoryList(goroutines[1])) = 4

----------------------------------------------------------------------------------------------------------------------------------------
(* Lock-order inversions between two goroutines                            *)

SitesEvents == 8

\* three lock sites, one of them in a package that looks like the runtime
SitesA ==
    [ids |-> {1, 2},
     trans |-> {<<"Undetermined", "Running">>, <<"Running", "Waiting">>,
                <<"Waiting", "Running">>},
     reasons |-> {"sync"},
     stacks |-> {StackA1, StackB, StackT}, cstacks |-> {StackC},
     deltas |-> {1250000}, max |-> SitesEvents]

InitSites == InitWith(SitesA.ids, {1000000})

NextSites == ReadTransition(SitesA) \/ Finish

SpecSites == InitSites /\ [][NextSites]_vars

ABBAEvents == 10

\* two lock sites, traces long enough for a goroutine to take a lock twice
ABBAA ==
    [ids |-> {1, 2},
     trans |-> {<<"Undetermined", "Running">>, <<"Running", "Waiting">>,
                <<"Waiting", "Running">>},
     reasons |-> {"sync"},
     stacks |-> {StackA1, StackB}, cstacks |-> {StackC},
     deltas |-> {1000000}, max |-> ABBAEvents]

InitABBA == InitWith(ABBAA.ids, {1000000})

NextABBA == ReadTransition(ABBAA) \/ Finish

SpecABBA == InitABBA /\ [][NextABBA]_vars

IsABBA(f) == f.BlockedOn = <<"sync (AB-BA lock inversion)">>

\* goroutine gid is blocked on sync at site loc with user code on its stack
SyncWaiterAt(gid, loc) ==
    /\ gstate[gid] = "Waiting"
    /\ goroutines[gid].isBlocked
    /\ goroutines[gid].reason = "sync"
    /\ ~isRuntimeGoroutine(goroutines[gid].stack)
    /\ goroutines[gid].location = loc

\* goroutine gid has, among its five latest sync unblocks, one at site loc
\* that ended at most 5 s before the last event
HeldRecently(gid, loc) ==
    \E e \in Range(RecentEntries(syncLog[gid].done)) :
        /\ e.location = loc
        /\ lastTime - e.endTime <= 5000000

\* G1 waits at b and took a at most 5 s ago, G2 waits at a and took b
Inversion(g1, g2, a, b) ==
    /\ g1 # g2
    /\ a # b
    /\ SyncWaiterAt(g1, b) /\ HeldRecently(g1, a)
    /\ SyncWaiterAt(g2, a) /\ HeldRecently(g2, b)

Sites == {goroutines[gid].location : gid \in DOMAIN goroutines}

\* C9: every AB-BA finding has two distinct goroutines G1 (the one it names)
\* and G2, both blocked on sync with non-runtime-only stacks, and sites
\* A # B with G1 waiting at B holding A and G2 waiting at A holding B, both
\* entries at most 5 s old; one goroutine's own edges form no inverse pair.
C9_ABBAFindingHasInversion ==
    pc = "done" =>
        /\ \A fs \in ABBAOuts \cup {result.Findings} :
              \A i \in DOMAIN fs :
                 IsABBA(fs[i]) =>
                    \E g2 \in DOMAIN goroutines, a \in Sites :
                        Inversion(fs[i].GoroutineID, g2, a, fs[i].Location)
        /\ \A gid \in DOMAIN goroutines :
              ABBAScan(goroutines, lastTime,
                       ABBAEdgesOf(gid, goroutines[gid], lastTime), 1, 2, {}) = <<>>

C9_Witness ==
    /\ pc = "done"
    /\ \E i \in DOMAIN result.Findings :
          /\ IsABBA(result.Findings[i])
          /\ result.Findings[i].GoroutineID = 2
          /\ result.Findings[i].Location = FrameLocation(FrameB)
    /\ HeldRecently(1, FrameLocation(FrameB))
    /\ SyncWaiterAt(1, FrameLocation(FrameA))

\* the unordered site pairs that some two goroutines invert
InvertedPairs ==
    {p \in {{a, b} : a \in Sites, b \in Sites} :
        \E a \in p, b \in p, g1 \in DOMAIN goroutines, g2 \in DOMAIN goroutines :
            Inversion(g1, g2, a, b)}

\* C10: detectABBA emits exactly one Deadlock/Medium finding with blocked_on
\* 'sync (AB-BA lock inversion)' for each inverted unordered pair, however
\* many goroutines or history entries realise it.
C10_OneFindingPerInvertedPair ==
    pc = "done" =>
        \A fs \in ABBAOuts :
            /\ Len(fs) = Cardinality(InvertedPairs)
            /\ \A i \in DOMAIN fs :
                  /\ fs[i].Kind = "deadlock"
                  /\ fs[i].Confidence = "medium"
                  /\ IsABBA(fs[i])
            /\ \A p \in InvertedPairs :
                  \E i \in DOMAIN fs, a \in p :
                      /\ fs[i].Location \in p \ {a}
                      /\ HeldRecently(fs[i].GoroutineID, a)
            /\ Cardinality({i \in DOMAIN result.Findings : IsABBA(result.Findings[i])})
                  = Cardinality(InvertedPairs)

C10_Witness ==
    /\ pc = "done"
    /\ Cardinality(InvertedPairs) = 1
    /\ \E gid \in DOMAIN goroutines :
          /\ goroutines[gid].isBlocked
          /\ Len(ABBAEdgesOf(gid, goroutines[gid], lastTime)) = 2
          /\ LET es == ABBAEdgesOf(gid, goroutines[gid], lastTime)
             IN  es[1].from = es[2].from
    /\ Cardinality({i \in DOMAIN result.Findings : IsABBA(result.Findings[i])}) = 1

----------------------------------------------------------------------------
(* A lock held across a channel operation: three goroutines                *)

CycleEvents == 10

CycleA ==
    [ids |-> {1, 2, 3},
     trans |-> {<<"Undetermined", "Running">>, <<"Running", "Waiting">>,
                <<"Waiting", "Running">>},
     reasons |-> {"sync", "chan send"},
     stacks |-> {StackA1, StackB}, cstacks |-> {StackC},
     deltas |-> {1000000}, max |-> CycleEvents]

InitCycle == InitWith(CycleA.ids, {1000000})

\* the traces read: goroutines 1 and 2 block on sync and, once through, on a
\* channel send that never completes; goroutine 3 blocks on sync for good
CycleTrace ==
    \A gid \in DOMAIN syncLog :
        LET l == syncLog[gid]
        IN  /\ l.blocks <= (IF gid = 3 THEN 1 ELSE 2)
            /\ l.blocks = (IF gid = 3 THEN 1 ELSE 2) => l.open # NoBlock
            /\ l.open # NoBlock =>
                  l.open.reason = (IF l.blocks = 2 THEN "chan send" ELSE "sync")

NextCycle == (ReadTransition(CycleA) /\ CycleTrace') \/ Finish

SpecCycle == InitCycle /\ [][NextCycle]_vars

----------------------------------------------------------------------------
(* A lock held across a channel operation: two goroutines, three stacks    *)

ChanEvents == 8

ChanA ==
    [ids |-> {1, 2},
     trans |-> {<<"Undetermined", "Running">>, <<"Running", "Waiting">>,
                <<"Waiting", "Running">>},
     reasons |-> {"sync", "chan receive"},
     stacks |-> {StackA1, StackB, StackT}, cstacks |-> {StackC},
     deltas |-> {1250000}, max |-> ChanEvents]

InitChan == InitWith(ChanA.ids, {1000000})

NextChan == ReadTransition(ChanA) \/ Finish

SpecChan == InitChan /\ [][NextChan]_vars

HoldsLockSuffix == " (holds lock; lock waiter cannot unblock channel)"

IsChanLock(f) ==
    f.BlockedOn \in {<<r, HoldsLockSuffix>> : r \in {"chan send", "chan receive"}}

\* goroutine gid is blocked on a channel operation with user code on its
\* stack, and its latest sync unblock was at site loc at most 5 s before
\* the last event
ChanHolderOf(gid, loc) ==
    /\ gstate[gid] = "Waiting"
    /\ goroutines[gid].isBlocked
    /\ goroutines[gid].reason \in {"chan send", "chan receive"}
    /\ ~isRuntimeGoroutine(goroutines[gid].stack)
    /\ goroutines[gid].prevSyncLocation = loc
    /\ lastTime - goroutines[gid].prevSyncEndTime <= 5000000

\* C11: every channel/lock-cycle finding names a goroutine G blocked at the end
\* of the trace on chan send or chan receive with a non-runtime-only stack and
\* a non-empty prev_sync_location at most 5 s old, and a goroutine other than
\* G is blocked on sync with a non-runtime-only stack at that location.
C11_ChanLockFindingHasWaiter ==
    pc = "done" =>
        \A fs \in ChanLockOuts \cup {result.Findings} :
            \A i \in DOMAIN fs :
                IsChanLock(fs[i]) =>
                    LET gid == fs[i].GoroutineID
                        loc == goroutines[gid].prevSyncLocation
                    IN  /\ loc # <<>>
                        /\ ChanHolderOf(gid, loc)
                        /\ \E w \in DOMAIN goroutines \ {gid} : SyncWaiterAt(w, loc)

C11_Witness ==
    /\ pc = "done"
    /\ \E i \in DOMAIN result.Findings :
          /\ IsChanLock(result.Findings[i])
          /\ result.Findings[i].GoroutineID = 1
          /\ result.Findings[i].Location = FrameLocation(FrameB)
    /\ ChanHolderOf(1, FrameLocation(FrameA))
    /\ SyncWaiterAt(2, FrameLocation(FrameA))

\* the lock sites C12 is about: some goroutine waits there on sync with user
\* code on its stack
LockSites ==
    {goroutines[gid].location :
        gid \in {x \in DOMAIN goroutines : SyncWaiterAt(x, goroutines[x].location)}}

ChanHolders(loc) == {gid \in DOMAIN goroutines : ChanHolderOf(gid, loc)}

\* C12: for each lock site L with a sync waiter and at least one channel-blocked
\* goroutine whose prev_sync_location is L and at most 5 s old,
\* detectChanLockCycle emits exactly one Deadlock/Medium finding for L, located
\* at the channel blocking site of one such goroutine, with blocked_on that
\* goroutine's reason followed by the holds-lock suffix.
C12_OneFindingPerLockSite ==
    pc = "done" =>
        \A loc \in LockSites :
            ChanHolders(loc) # {} =>
                \A fs \in ChanLockOuts :
                    LET hits == {i \in DOMAIN fs :
                                    fs[i].GoroutineID \in ChanHolders(loc)}
                    IN  /\ Cardinality(hits) = 1
                        /\ \A i \in hits :
                              LET g == goroutines[fs[i].GoroutineID]
                              IN  /\ fs[i].Kind = "deadlock"
                                  /\ fs[i].Confidence = "medium"
                                  /\ fs[i].Location = g.location
                                  /\ fs[i].Location =
                                        OpenBlockSite(fs[i].GoroutineID)
                                  /\ fs[i].BlockedOn = <<g.reason, HoldsLockSuffix>>
                        /\ Cardinality({i \in DOMAIN result.Findings :
                              /\ IsChanLock(result.Findings[i])
                              /\ result.Findings[i].GoroutineID
                                    \in ChanHolders(loc)}) = 1

C12_Witness ==
    /\ pc = "done"
    /\ SyncWaiterAt(3, FrameLocation(FrameA))
    /\ ChanHolders(FrameLocation(FrameA)) = {1, 2}
    /\ goroutines[1].location # goroutines[2].location
    /\ Cardinality({i \in DOMAIN result.Findings :
                      IsChanLock(result.Findings[i])}) = 1

FindingKey(f) == <<f.Kind, f.GoroutineID, f.Location, f.BlockedOn>>

KeySet(fs) == {FindingKey(fs[i]) : i \in DOMAIN fs}

\* the sets of findings the detection pass can return for the goroutine map
\* the loop has built, one for each choice of iteration orders
ResultKeySets ==
    {KeySet(f1) \cup KeySet(f2) \cup KeySet(f3) \cup KeySet(f4)
        \cup KeySet(f5) \cup KeySet(f6) :
        f1 \in LeakOuts, f2 \in DeadlockOuts, f3 \in TransientOuts,
        f4 \in ABBAOuts, f5 \in ChanLockOuts, f6 \in OrphanOuts}

\* C13 as stated: two runs on the same events and options return the same set
\* of findings under equality on (kind, goroutine_id, location, blocked_on),
\* whatever order each detector iterates the goroutine map in.
C13_FindingsSetIsOrderIndependent ==
    pc = "done" => Cardinality(ResultKeySets) = 1

----------------------------------------------------------------------------
(* Short traces: goroutines that are created and left alone                *)

OrphanEvents == 5

OrphanA ==
    [ids |-> {1, 2},
     trans |-> {<<"NotExist", "Runnable">>, <<"Undetermined", "Running">>,
                <<"Runnable", "Running">>, <<"Running", "Waiting">>,
                <<"Waiting", "Running">>, <<"Running", "NotExist">>},
     reasons |-> {"chan receive"},
     stacks |-> {StackA}, cstacks |-> {StackC, StackTst, StackRT},
     deltas |-> {0, 100000}, max |-> OrphanEvents]

InitOrphan == InitWith(OrphanA.ids, {1000000})

NextOrphan == ReadTransition(OrphanA) \/ Finish

SpecOrphan == InitOrphan /\ [][NextOrphan]_vars

IsOrphan(f) ==
    f.BlockedOn = <<"never ran (test exited before goroutine was scheduled)">>

\* C14: detectOrphans emits nothing when the trace spans 200 ms or more,
\* whatever the goroutine states are; 'never ran' findings exist only for
\* traces shorter than 200 ms.
C14_NoOrphanOnLongTrace ==
    pc = "done" =>
        /\ lastTime - firstTime >= 200000 => \A fs \in OrphanOuts : fs = <<>>
        /\ \A i \in DOMAIN result.Findings :
              IsOrphan(result.Findings[i]) => lastTime - firstTime < 200000

\* a goroutine born in the trace from user code and runnable ever since, a
\* trace that spans exactly 200 ms, and no 'never ran' finding
C14_Witness ==
    /\ pc = "done"
    /\ lastTime - firstTime = 200000
    /\ 1 \in DOMAIN goroutines
    /\ gstate[1] = "Runnable"
    /\ syncLog[1].born /\ ~syncLog[1].ran
    /\ goroutines[1].creationLocation = FrameLocation(FrameC)
    /\ \A i \in DOMAIN result.Findings : ~IsOrphan(result.Findings[i])

\* C15 as stated: every 'never ran' finding names a goroutine that was
\* created during the trace, never exited, and that no event moved into an
\* executing state between its creation and the end of the trace.
C15_OrphanNeverRan ==
    pc = "done" =>
        \A fs \in OrphanOuts \cup {result.Findings} :
            \A i \in DOMAIN fs :
                IsOrphan(fs[i]) =>
                    LET gid == fs[i].GoroutineID
                    IN  /\ gid \in DOMAIN syncLog
                        /\ syncLog[gid].born
                        /\ gstate[gid] # "NotExist"
                        /\ ~syncLog[gid].ran

----------------------------------------------------------------------------
(* runRun: the findings of Analyze and of the static lock-release pass     *)

\* what static.AnalyzeLockRelease can return: an error, or a list of findings
StaticFinding ==
    [Function |-> <<"main.leaky">>, Location |-> <<"s.go", ":", 7>>,
     Message |-> <<"mutex Lock() acquired but not released on all exit paths">>]

StaticOuts == {<<>>, <<StaticFinding>>, <<StaticFinding, StaticFinding>>}

\* the --static branch of runRun: one lock_leak finding per static finding
AppendStatic ==
    /\ pc = "done"
    /\ \E flagStatic \in BOOLEAN, serr \in BOOLEAN, staticFindings \in StaticOuts :
          result' = IF flagStatic /\ ~serr
                    THEN [result EXCEPT !.Findings = result.Findings \o
                            [i \in 1..Len(staticFindings) |->
                               MkFinding("lock_leak", "low", 0,
                                         staticFindings[i].Message, 0, <<>>,
                                         staticFindings[i].Function,
                                         staticFindings[i].Location)]]
                    ELSE result
    /\ pc' = "reported"
    /\ UNCHANGED <<goroutines, firstTime, lastTime, first, opts, gstate, nread,
                   syncLog, stderr, run, static, classified>>

RunEvents == 8

RunA ==
    [ids |-> {1, 2},
     trans |-> {<<"NotExist", "Runnable">>, <<"Undetermined", "Running">>,
                <<"Runnable", "Running">>, <<"Running", "Waiting">>,
                <<"Waiting", "Running">>},
     reasons |-> {"sync", "chan send"},
     stacks |-> {StackA1, StackB}, cstacks |-> {StackC},
     deltas |-> {1000000}, max |-> RunEvents]

InitRun == InitWith(RunA.ids, {1000000})

NextRun == ReadTransition(RunA) \/ Finish \/ AppendStatic

SpecRun == InitRun /\ [][NextRun]_vars

HasKindConf(fs, kinds, confs) ==
    \A i \in DOMAIN fs : fs[i].Kind \in kinds /\ fs[i].Confidence \in confs

\* C16: the confidence of a finding is fixed by the detector that produced it:
\* channel leaks of detectLeaks are high; long blocks, call-site deadlock
\* groups, AB-BA, channel/lock cycles and transient long blocks are medium;
\* orphans and static lock leaks are low.  So every deadlock and long_block
\* finding of a Result is medium and every goroutine_leak is high or low.
C16_ConfidenceFixedByDetector ==
    pc \in {"done", "reported"} =>
        /\ \A fs \in LeakOuts : \A i \in DOMAIN fs :
              \/ /\ fs[i].Kind = "goroutine_leak" /\ fs[i].Confidence = "high"
                 /\ fs[i].BlockedOn \in {<<"chan send">>, <<"chan receive">>}
              \/ /\ fs[i].Kind = "long_block" /\ fs[i].Confidence = "medium"
                 /\ fs[i].BlockedOn \notin {<<"chan send">>, <<"chan receive">>}
        /\ \A fs \in DeadlockOuts \cup ABBAOuts \cup ChanLockOuts :
              HasKindConf(fs, {"deadlock"}, {"medium"})
        /\ \A fs \in TransientOuts : HasKindConf(fs, {"long_block"}, {"medium"})
        /\ \A fs \in OrphanOuts : HasKindConf(fs, {"goroutine_leak"}, {"low"})
        /\ \A i \in DOMAIN result.Findings :
              LET f == result.Findings[i]
              IN  /\ f.Kind \in {"goroutine_leak", "deadlock", "long_block", "lock_leak"}
                  /\ f.Kind \in {"deadlock", "long_block"} => f.Confidence = "medium"
                  /\ f.Kind = "goroutine_leak" =>
                        \/ f.Confidence = "high" /\ ~IsOrphan(f)
                        \/ f.Confidence = "low" /\ IsOrphan(f)
                  /\ f.Kind = "lock_leak" => f.Confidence = "low"

\* a Result with a channel leak (high), a channel/lock cycle and a long block
\* (medium) and a static lock leak (low)
C16_Witness ==
    /\ pc = "reported"
    /\ \E i, j, k, m \in DOMAIN result.Findings :
          /\ IsChanLeak(result.Findings[i])
          /\ IsChanLock(result.Findings[j])
          /\ result.Findings[k].Kind = "long_block"
          /\ result.Findings[m].Kind = "lock_leak"

----------------------------------------------------------------------------
(* Call-site deadlock groups: blocked durations around the threshold       *)

DeadlockEvents == 6

DeadlockA ==
    [ids |-> {1, 2},
     trans |-> {<<"Undetermined", "Running">>, <<"Running", "Waiting">>},
     reasons |-> {"sync", "chan send"},
     stacks |-> {StackA1, StackB, StackRT}, cstacks |-> {StackC},
     deltas |-> {100000, 200000}, max |-> DeadlockEvents]

InitDeadlock == InitWith(DeadlockA.ids, {-1000, 0, 300000, 1000000})

NextDeadlock == ReadTransition(DeadlockA) \/ ReadOther(DeadlockA) \/ Finish

SpecDeadlock == InitDeadlock /\ [][NextDeadlock]_vars

\* the threshold as the option and the 500 ms constant give it
EffectiveThreshold ==
    IF opts.MinBlock > 0 THEN Min(500000, opts.MinBlock) ELSE 500000

\* how long the events show goroutine gid to have been in its open block
OpenBlockedFor(gid) == lastTime - syncLog[gid].open.start

\* the goroutines blocked on sync at site loc, user code on the stack, for at
\* least d
LongWaitersAt(loc, d) ==
    {gid \in DOMAIN goroutines : SyncWaiterAt(gid, loc) /\ OpenBlockedFor(gid) >= d}

IsCallSiteDeadlock(f) == f.Kind = "deadlock" /\ f.BlockedOn = <<"sync">>

C18_DeadlockNeedsTwoWaiters ==
    pc = "done" =>
        \A fs \in DeadlockOuts \cup {result.Findings} :
            \A i \in DOMAIN fs :
                IsCallSiteDeadlock(fs[i]) =>
                    Cardinality(LongWaitersAt(fs[i].Location, EffectiveThreshold)) >= 2

\* C19: the threshold of detectDeadlocks is min(500 ms, min_block) when
\* min_block > 0 and 500 ms otherwise, so 500 ms for every min_block above
\* 500 ms, and a goroutine is grouped exactly when last_time - block_start is
\* at least that threshold.
C19_DeadlockThreshold ==
    /\ DeadlockThresholdFor(opts) = EffectiveThreshold
    /\ opts.MinBlock > 500000 => DeadlockThresholdFor(opts) = 500000
    /\ pc = "done" =>
          \A gid \in DOMAIN goroutines :
              SyncWaiterAt(gid, goroutines[gid].location) =>
                  /\ DeadlockMember(goroutines[gid], lastTime, opts)
                        <=> lastTime - goroutines[gid].blockStart >= EffectiveThreshold
                  /\ LongWaitersAt(goroutines[gid].location, 0) = {gid} =>
                        \A fs \in DeadlockOuts :
                            (\E i \in DOMAIN fs : fs[i].GoroutineID = gid)
                            <=> OpenBlockedFor(gid) >= EffectiveThreshold

\* min_block of 1 s, a goroutine blocked for exactly 500 ms and reported
C19_Witness ==
    /\ pc = "done"
    /\ opts.MinBlock = 1000000
    /\ SyncWaiterAt(1, FrameLocation(FrameB))
    /\ OpenBlockedFor(1) = 500000
    /\ \E i \in DOMAIN result.Findings :
          /\ IsCallSiteDeadlock(result.Findings[i])
          /\ result.Findings[i].GoroutineID = 1

\* the goroutines C20 is about: blocked at the end of the trace, user code on
\* the blocking stack, on a reason other than chan send, chan receive and
\* sleep, and past the provenance filter (sync blocks are exempt from it)
LongBlockCandidate(gid) ==
    LET g == goroutines[gid]
    IN  /\ gstate[gid] = "Waiting"
        /\ g.isBlocked
        /\ ~isRuntimeGoroutine(g.stack)
        /\ g.reason \notin {"chan send", "chan receive", "sleep"}
        /\ g.reason # "sync" =>
              g.creationSeen /\ ~isNonTestRuntimeGoroutine(g.creationStack)

\* C20: with min_block = 0 the duration threshold of detectLeaks rejects
\* nothing: every such goroutine is emitted as LongBlock/Medium, also when its
\* blocked duration is 0.
C20_ZeroMinBlockReportsAll ==
    (pc = "done" /\ opts.MinBlock = 0) =>
        \A gid \in DOMAIN goroutines :
            LongBlockCandidate(gid) =>
                /\ \A fs \in LeakOuts :
                      Cardinality({i \in DOMAIN fs :
                          /\ fs[i].GoroutineID = gid
                          /\ fs[i].Kind = "long_block"
                          /\ fs[i].Confidence = "medium"
                          /\ fs[i].BlockedFor = OpenBlockedFor(gid)}) = 1
                /\ \E i \in DOMAIN result.Findings :
                      /\ result.Findings[i].GoroutineID = gid
                      /\ result.Findings[i].Kind = "long_block"
                      /\ result.Findings[i].BlockedOn = <<goroutines[gid].reason>>

\* min_block = 0 and a goroutine born in the trace that blocks on select at
\* the last event, reported with a blocked duration of 0
C20_Witness ==
    /\ pc = "done"
    /\ opts.MinBlock = 0
    /\ \E gid \in DOMAIN goroutines :
          /\ LongBlockCandidate(gid)
          /\ goroutines[gid].reason = "select"
          /\ OpenBlockedFor(gid) = 0
          /\ \E i \in DOMAIN result.Findings :
                /\ result.Findings[i].GoroutineID = gid
                /\ result.Findings[i].Kind = "long_block"
                /\ result.Findings[i].BlockedFor = 0

----------------------------------------------------------------------------
(* Analyze with read errors and with the debug dump switched on            *)

DebugEvents == 5

DebugA ==
    [ids |-> {1, 2},
     trans |-> {<<"NotExist", "Runnable">>, <<"Undetermined", "Running">>,
                <<"Runnable", "Running">>, <<"Running", "Waiting">>,
                <<"Waiting", "Runnable">>},
     reasons |-> {"chan send", "chan receive", "sync", "sleep", "select"},
     stacks |-> {StackA, StackRT}, cstacks |-> {StackC, StackTst, StackRT},
     deltas |-> {600000}, max |-> DebugEvents]

InitDebug == InitOpts(DebugA.ids, {0, 1000000}, BOOLEAN)

NextDebug == ReadTransition(DebugA) \/ Finish \/ ReadError

SpecDebug == InitDebug /\ [][NextDebug]_vars

\* C21: when reading an event fails after k events, Analyze stops ingesting,
\* returns no error and returns a Result (findings, duration_ms,
\* goroutines_analyzed) that analysing exactly those k events returns; nothing
\* accumulated before the error is discarded or changed.
C21_ReadErrorKeepsState ==
    /\ [](pc = "done" /\ stderr.warned =>
            /\ result \in AnalyzeResults(opts)
            /\ result.GoroutinesAnalyzed = Cardinality(DOMAIN syncLog))
    /\ [][(pc = "reading" /\ pc' = "done" /\ stderr'.warned) =>
            /\ UNCHANGED <<goroutines, firstTime, lastTime, first, opts>>
            /\ \E r \in AnalyzeResults(opts) : result' = r]_vars

\* a read error after four events, two goroutines on record and a finding
C21_Witness ==
    /\ pc = "done"
    /\ stderr.warned
    /\ nread = 4
    /\ result.GoroutinesAnalyzed = 2
    /\ result.Findings # <<>>

Max(a, b) == IF a > b THEN a ELSE b

\* goroutine gid is reported by detectLeaks as a long block on sync and its
\* call site by detectDeadlocks
LongBlockAndDeadlock(gid) ==
    /\ \E i \in DOMAIN result.Findings :
          /\ result.Findings[i].Kind = "long_block"
          /\ result.Findings[i].GoroutineID = gid
          /\ result.Findings[i].BlockedOn = <<"sync">>
          /\ result.Findings[i].BlockedFor = OpenBlockedFor(gid)
    /\ \E i \in DOMAIN result.Findings :
          /\ IsCallSiteDeadlock(result.Findings[i])
          /\ result.Findings[i].Location = OpenBlockSite(gid)
          /\ result.Findings[i].BlockedFor >= OpenBlockedFor(gid)

\* the findings are the six outputs in the order of the calls
IsConcatenation ==
    \E f1 \in LeakOuts, f2 \in DeadlockOuts, f3 \in TransientOuts,
       f4 \in ABBAOuts, f5 \in ChanLockOuts, f6 \in OrphanOuts :
        result.Findings = f1 \o f2 \o f3 \o f4 \o f5 \o f6

\* C22 as stated: the findings of a Result are the outputs of detectLeaks,
\* detectDeadlocks, detectTransientBlocks, detectABBA, detectChanLockCycle and
\* detectOrphans, concatenated in this order, and every goroutine blocked on
\* sync at the end of the trace for at least max(min_block, deadlock
\* threshold) yields both a LongBlock and a Deadlock finding.
C22_ConcatenationBothFindings ==
    pc = "done" =>
        /\ IsConcatenation
        /\ \A gid \in DOMAIN goroutines :
              (/\ gstate[gid] = "Waiting"
               /\ syncLog[gid].open.reason = "sync"
               /\ OpenBlockedFor(gid) >= Max(opts.MinBlock, EffectiveThreshold))
                 => LongBlockAndDeadlock(gid)

\* C22 amended: the same, for the goroutines whose blocking stack is not
\* runtime-only; one with a runtime-only blocking stack yields neither of
\* the two.
C22_ConcatenationBothFindingsUserStack ==
    pc = "done" =>
        /\ IsConcatenation
        /\ \A gid \in DOMAIN goroutines :
              (/\ gstate[gid] = "Waiting"
               /\ syncLog[gid].open.reason = "sync"
               /\ OpenBlockedFor(gid) >= Max(opts.MinBlock, EffectiveThreshold))
                 => IF isRuntimeGoroutine(goroutines[gid].stack)
                    THEN \A fs \in LeakOuts \cup DeadlockOuts :
                            \A i \in DOMAIN fs : fs[i].GoroutineID # gid
                    ELSE LongBlockAndDeadlock(gid)

\* min_block of 1 s, goroutine 1 blocked on sync at a.go:10 for 1.2 s and
\* found twice
C22_Witness ==
    /\ pc = "done"
    /\ opts.MinBlock = 1000000
    /\ SyncWaiterAt(1, FrameLocation(FrameA))
    /\ OpenBlockedFor(1) = 1200000
    /\ LongBlockAndDeadlock(1)

----------------------------------------------------------------------------
(* runRun: the first capture pass and the schedule-diversity retries       *)

\* the GOMAXPROCS values to retry with
scheduleDiversityValues(numCPU) ==
    SelectSeq(<<1, 2, 4>>, LAMBDA v : v <= numCPU \/ v = 1)

\* what Analyze returns for the trace of one capture pass: an error, or a
\* Result with no, one or two findings
PassFinding(gid) ==
    MkFinding("goroutine_leak", "high", gid, <<"chan send">>, 0,
              <<FrameLine(FrameA)>>, FrameA.Func, FrameLocation(FrameA))

PassResults ==
    {[DurationMs |-> d, GoroutinesAnalyzed |-> 2, Findings |-> fs] :
        d \in {10, 20}, fs \in {<<>>, <<PassFinding(1)>>,
                               <<PassFinding(1), PassFinding(2)>>}}

\* one capture pass as the log keeps it: the GOMAXPROCS value (0: not set),
\* how it went, the trace file it left to its caller (0: none), the Result
LogPass(env, outcome, file, res) ==
    [env |-> env, outcome |-> outcome, file |-> file, res |-> res]

NumCPUs == {1, 2, 3, 4, 8}

\* the sizes a trace file can have
TraceSizes == {0, 1, 2}

\* runSingle, with id the name tempTraceFile would give the file: what it
\* returns (file 0: an error) and the trace files it leaves on disk
runSingle(id) ==
    {[err |-> TRUE, why |-> w, file |-> 0, size |-> 0, disk |-> {}] :
        w \in {"create trace file", "go test", "trace file not created"}}
    \cup {[err |-> FALSE, why |-> "", file |-> id, size |-> sz, disk |-> {id}] :
            sz \in TraceSizes}

\* runMulti, first loop: the largest trace so far, <<bestTrace, bestSize>>
RECURSIVE BestTrace(_, _, _)
BestTrace(rs, i, best) ==
    IF i > Len(rs) THEN best
    ELSE IF ~rs[i].err /\ rs[i].size > best[2]
         THEN BestTrace(rs, i + 1, <<rs[i].file, rs[i].size>>)
         ELSE BestTrace(rs, i + 1, best)

\* faulty variant: the traces of the packages not picked stay on disk
runMulti_KeepAll(rs) ==
    LET best == BestTrace(rs, 1, <<0, 0>>)
    IN  [err |-> best[1] = 0,
         why |-> IF best[1] = 0 THEN "no packages produced a trace" ELSE "",
         file |-> best[1], size |-> best[2],
         disk |-> UNION {rs[i].disk : i \in DOMAIN rs}]

\* runMulti on the outcomes rs of runSingle, one for each package
runMulti(rs) ==
    LET best       == BestTrace(rs, 1, <<0, 0>>)
        traceFiles == {rs[i].file : i \in {j \in DOMAIN rs : ~rs[j].err}}
    IN  [err |-> best[1] = 0,
         why |-> IF best[1] = 0 THEN "no packages produced a trace" ELSE "",
         file |-> best[1], size |-> best[2],
         disk |-> UNION {rs[i].disk : i \in DOMAIN rs}
                    \ {f \in traceFiles : f # best[1]}]

\* tracer.Run on one package or on two, the files named base + 1, base + 2
tracerRun(base) ==
    runSingle(base + 1)
    \cup {runMulti(<<r1, r2>>) : r1 \in runSingle(base + 1), r2 \in runSingle(base + 2)}

\* tracer.Run and Analyze of the first pass, up to the retry loop
FirstPass ==
    /\ run.pc = "start"
    /\ \E r \in tracerRun(0) :
          \/ /\ r.err
             /\ run' = [run EXCEPT !.pc = "returned", !.err = TRUE,
                          !.files = @ \cup r.disk,
                          !.passes = Append(@, LogPass(0, "run error", 0, NilResult))]
             /\ UNCHANGED result
          \/ /\ ~r.err
             /\ run' = [run EXCEPT !.pc = "returned", !.err = TRUE,
                          !.files = (@ \cup r.disk) \ {r.file},
                          !.passes = Append(@, LogPass(0, "analyze error", 0, NilResult))]
             /\ UNCHANGED result
          \/ /\ ~r.err
             /\ \E res \in PassResults, n \in NumCPUs :
                   /\ result' = res
                   /\ run' = [run EXCEPT !.pc = "loop", !.numCPU = n,
                                !.files = @ \cup r.disk, !.traceToClean = r.file,
                                !.passes = Append(@, LogPass(0, "analyzed", r.file, res))]
    /\ UNCHANGED <<goroutines, firstTime, lastTime, first, pc, opts, gstate, nread,
                   syncLog, stderr, static, classified>>

\* faulty variant: a retry is made whether or not there are findings
RetryPass_Always ==
    /\ run.pc = "loop"
    /\ run.next <= Len(scheduleDiversityValues(run.numCPU))
    /\ LET gmp == scheduleDiversityValues(run.numCPU)[run.next]
       IN  \E r2 \in {r \in tracerRun(2 * Len(run.passes)) : ~r.err},
              res2 \in PassResults :
              IF res2.Findings # <<>>
              THEN /\ result' = res2
                   /\ run' = [run EXCEPT !.next = @ + 1,
                                !.files = (@ \cup r2.disk) \ {run.traceToClean},
                                !.traceToClean = r2.file,
                                !.passes = Append(@, LogPass(gmp, "analyzed", r2.file, res2))]
              ELSE /\ UNCHANGED result
                   /\ run' = [run EXCEPT !.next = @ + 1,
                                !.files = (@ \cup r2.disk) \ {r2.file},
                                !.passes = Append(@, LogPass(gmp, "analyzed", 0, res2))]
    /\ UNCHANGED <<goroutines, firstTime, lastTime, first, pc, opts, gstate, nread,
                   syncLog, stderr, static, classified>>

\* one iteration of the retry loop that does not break
RetryPass ==
    /\ run.pc = "loop"
    /\ run.next <= Len(scheduleDiversityValues(run.numCPU))
    /\ ~(Len(result.Findings) > 0)
    /\ LET gmp == scheduleDiversityValues(run.numCPU)[run.next]
       IN  \E r2 \in tracerRun(2 * Len(run.passes)) :
              \/ /\ r2.err
                 /\ run' = [run EXCEPT !.next = @ + 1,
                              !.files = @ \cup r2.disk,
                              !.passes = Append(@, LogPass(gmp, "run error", 0, NilResult))]
                 /\ UNCHANGED result
              \/ /\ ~r2.err
                 /\ run' = [run EXCEPT !.next = @ + 1,
                              !.files = (@ \cup r2.disk) \ {r2.file},
                              !.passes = Append(@, LogPass(gmp, "analyze error", 0,
                                                           NilResult))]
                 /\ UNCHANGED result
              \/ /\ ~r2.err
                 /\ \E res2 \in PassResults :
                       IF res2.Findings # <<>>
                       THEN /\ result' = res2
                            /\ run' = [run EXCEPT
                                         !.next = @ + 1,
                                         !.files = (@ \cup r2.disk) \ {run.traceToClean},
                                         !.traceToClean = r2.file,
                                         !.passes = Append(@, LogPass(gmp, "analyzed",
                                                                      r2.file, res2))]
                       ELSE /\ UNCHANGED result
                            /\ run' = [run EXCEPT
                                         !.next = @ + 1,
                                         !.files = (@ \cup r2.disk) \ {r2.file},
                                         !.passes = Append(@, LogPass(gmp, "analyzed", 0,
                                                                      res2))]
    /\ UNCHANGED <<goroutines, firstTime, lastTime, first, pc, opts, gstate, nread,
                   syncLog, stderr, static, classified>>

\* the loop ends: the values are used up, or the result has findings
EndRetries ==
    /\ run.pc = "loop"
    /\ \/ run.next > Len(scheduleDiversityValues(run.numCPU))
       \/ Len(result.Findings) > 0
    /\ run' = [run EXCEPT !.pc = "after"]
    /\ pc' = "done"
    /\ UNCHANGED <<goroutines, firstTime, lastTime, first, result, opts, gstate,
                   nread, syncLog, stderr, static, classified>>

\* the report is written and runRun returns; the deferred Remove runs
Return ==
    /\ run.pc = "after"
    /\ pc = "reported"
    /\ \E werr \in BOOLEAN :
          run' = [run EXCEPT !.pc = "returned", !.err = werr,
                             !.files = @ \ {run.traceToClean}]
    /\ UNCHANGED <<goroutines, firstTime, lastTime, first, pc, result, opts, gstate,
                   nread, syncLog, stderr, static, classified>>

InitRetry == InitWith({1}, {1000000})

NextRetry == FirstPass \/ RetryPass \/ EndRetries \/ AppendStatic \/ Return

SpecRetry == InitRetry /\ [][NextRetry]_vars

\* the retry values as the claim gives them: 1, then 2 and 4 when not above
\* the CPU count
RetryValues(numCPU) ==
    <<1>> \o (IF 2 <= numCPU THEN <<2>> ELSE <<>>)
          \o (IF 4 <= numCPU THEN <<4>> ELSE <<>>)

HasFindings(p) == p.outcome = "analyzed" /\ p.res.Findings # <<>>

\* C23: a retry pass is started only while the current result has no findings;
\* retries use GOMAXPROCS=1, then 2, then 4 (2 and 4 only when not above the
\* CPU count), three at most; the loop stops at the first pass whose analysis
\* has a finding, that pass's result is the one reported, and no retry is run
\* when the first pass has findings.
C23_RetryOnlyWithoutFindings ==
    /\ [](LET ps == run.passes
              n  == Len(ps)
          IN  /\ n - 1 <= 3
              /\ \A i \in 2..n :
                    /\ ps[i].env = RetryValues(run.numCPU)[i - 1]
                    /\ \A j \in 1..(i - 1) : ~HasFindings(ps[j])
              /\ (n >= 1 /\ HasFindings(ps[1])) => n = 1
              /\ (run.pc \in {"after", "returned"} /\ ~run.err /\ pc = "done") =>
                    IF \E i \in 1..n : HasFindings(ps[i])
                    THEN HasFindings(ps[n]) /\ result = ps[n].res
                    ELSE /\ n = 1 + Len(RetryValues(run.numCPU))
                         /\ result = ps[1].res)
    /\ [][(\E i \in DOMAIN run.passes : HasFindings(run.passes[i]))
            => run.passes' = run.passes]_vars

\* four CPUs, no finding in the first pass and at GOMAXPROCS=1, a retry that
\* fails, findings at GOMAXPROCS=4, and that result reported
C23_Witness ==
    /\ run.pc = "after"
    /\ pc = "done"
    /\ run.numCPU = 4
    /\ Len(run.passes) = 4
    /\ run.passes[3].outcome = "run error"
    /\ run.passes[4].env = 4
    /\ HasFindings(run.passes[4])
    /\ result = run.passes[4].res


-----------------------------------------------------------------------------
\* The static lock-release analyzer (internal/static): analyzeFn over the
\* SSA control-flow graph of one function.  A function is a sequence of basic
\* blocks; a block is its instructions and the indices of its successors.  An
\* instruction is the kind of SSA node and the static callee's name ("" when
\* the call is an interface call or the node is no call at all).

isLockCall(fn) ==
    fn \in {"(*sync.Mutex).Lock", "(*sync.RWMutex).Lock", "(*sync.RWMutex).RLock"}

isUnlockCall(fn) ==
    fn \in {"(*sync.Mutex).Unlock", "(*sync.RWMutex).Unlock",
            "(*sync.RWMutex).RUnlock"}

\* calleeFunc: the static callee, none for an interface (invoke) call
calleeFunc(instr) == IF instr.invoke THEN "" ELSE instr.callee

InstrCall(callee) == [op |-> "call", callee |-> callee, invoke |-> FALSE]
InstrInvoke(callee) == [op |-> "call", callee |-> callee, invoke |-> TRUE]
InstrDefer(callee) == [op |-> "defer", callee |-> callee, invoke |-> FALSE]

\* lockSite: the block and the instruction index of a Lock() call
lockSite(b, idx) == <<b, idx>>

\* phase 1 of analyzeFn: the Lock() sites in block order, then instruction order
RECURSIVE LockSitesFrom(_, _, _)
LockSitesFrom(fn, b, ii) ==
    IF b > Len(fn) THEN <<>>
    ELSE IF ii > Len(fn[b].Instrs) THEN LockSitesFrom(fn, b + 1, 1)
    ELSE LET instr == fn[b].Instrs[ii]
             rest == LockSitesFrom(fn, b, ii + 1)
         IN IF instr.op = "call" /\ isLockCall(calleeFunc(instr))
            THEN <<lockSite(b, ii)>> \o rest
            ELSE rest

lockSites(fn) == LockSitesFrom(fn, 1, 1)

\* phase 1 of analyzeFn: unlockIdx[b], the instruction indices of block b that
\* call Unlock() (a Lock() call is tested first, so it is never counted here)
unlockIdx(fn, b) ==
    {ii \in 1..Len(fn[b].Instrs) :
        /\ fn[b].Instrs[ii].op = "call"
        /\ ~isLockCall(calleeFunc(fn[b].Instrs[ii]))
        /\ isUnlockCall(calleeFunc(fn[b].Instrs[ii]))}

\* phase 1 of analyzeFn: some block defers an Unlock()
hasDeferUnlock(fn) ==
    \E b \in 1..Len(fn) : \E ii \in 1..Len(fn[b].Instrs) :
        /\ fn[b].Instrs[ii].op = "defer"
        /\ isUnlockCall(calleeFunc(fn[b].Instrs[ii]))

hasUnlockAfterIdx(fn, b, fromIdx) ==
    \E ui \in unlockIdx(fn, b) : ui >= fromIdx

\* faulty variant: the visited set is not consulted
EnqueueSuccs_Revisit(succs, visited, i) == succs

\* the successors of block b not yet visited, in order, each once
RECURSIVE EnqueueSuccs(_, _, _)
EnqueueSuccs(succs, visited, i) ==
    IF i > Len(succs) THEN <<>>
    ELSE IF succs[i] \in visited THEN EnqueueSuccs(succs, visited, i + 1)
    ELSE <<succs[i]>> \o EnqueueSuccs(succs, visited \cup {succs[i]}, i + 1)

\* the number of times each block has been put on the queue
Enqueue(counts, blocks) ==
    [b \in DOMAIN counts |-> counts[b] + Cardinality({i \in DOMAIN blocks : blocks[i] = b})]

\* the bound of the functions analysed: at most this many basic blocks
MaxBlocks == 3

\* the instruction lists a block is drawn from
BlockInstrs ==
    {<<InstrInvoke("(*sync.Mutex).Lock")>>,
     <<InstrCall("(*sync.Mutex).Lock")>>,
     <<InstrCall("(*sync.RWMutex).RUnlock")>>,
     <<InstrCall("(*sync.RWMutex).RLock"), InstrCall("(*sync.Mutex).Unlock")>>,
     <<InstrCall("(*sync.Mutex).Unlock"), InstrCall("(*sync.Mutex).Lock")>>,
     <<InstrDefer("(*sync.Mutex).Unlock"), InstrCall("(*sync.Mutex).Lock")>>}

\* a block ends in a return or panic (no successor), a jump (one) or an if
\* (two, which may be the same block)
BlockSuccs ==
    {<<>>} \cup {<<a>> : a \in 1..MaxBlocks}
           \cup {<<a, b>> : <<a, b>> \in {p \in (1..MaxBlocks) \X (1..MaxBlocks) : p[1] <= p[2]}}

Fns ==
    {<<>>} \cup [1..MaxBlocks -> [Instrs : BlockInstrs, Succs : BlockSuccs]]

\* analyzeFn on the function it is given, up to the head of the loop over the
\* lock sites
analyzeFn ==
    /\ static.pc = "idle"
    /\ LET fn == static.fn
       IN static' = IF Len(fn) = 0 \/ Len(lockSites(fn)) = 0 \/ hasDeferUnlock(fn)
                    THEN [static EXCEPT !.pc = "done"]
                    ELSE [static EXCEPT !.pc = "site",
                                        !.sites = lockSites(fn),
                                        !.enqueued = [b \in 1..Len(fn) |-> 0]]
    /\ UNCHANGED <<goroutines, firstTime, lastTime, first, pc, result, opts, gstate,
                   nread, syncLog, stderr, run, classified>>

\* pathExistsWithoutUnlock returns v for the current lock site: analyzeFn
\* appends the finding when v is true and moves to the next site
PathReturn(v) ==
    [static EXCEPT !.pc = "site", !.sites = Tail(@), !.queue = <<>>,
                   !.findings = IF v THEN Append(@, static.ls) ELSE @]

\* pathExistsWithoutUnlock up to the head of the search loop
PathStart ==
    /\ static.pc = "site" /\ static.sites # <<>>
    /\ LET ls == Head(static.sites)
           fn == static.fn
           q == EnqueueSuccs(fn[ls[1]].Succs, {}, 1)
       IN static' = IF hasUnlockAfterIdx(fn, ls[1], ls[2] + 1)
                    THEN [PathReturn(FALSE) EXCEPT !.ls = ls]
                    ELSE [static EXCEPT !.pc = "bfs", !.ls = ls,
                                        !.visited = Range(q), !.queue = q,
                                        !.enqueued = Enqueue([b \in 1..Len(fn) |-> 0], q)]
    /\ UNCHANGED <<goroutines, firstTime, lastTime, first, pc, result, opts, gstate,
                   nread, syncLog, stderr, run, classified>>

\* one iteration of the search loop of pathExistsWithoutUnlock
PathStep ==
    /\ static.pc = "bfs" /\ static.queue # <<>>
    /\ LET cur == Head(static.queue)
           fn == static.fn
           q == EnqueueSuccs(fn[cur].Succs, static.visited, 1)
       IN static' = IF unlockIdx(fn, cur) # {}
                    THEN [static EXCEPT !.queue = Tail(@)]
                    ELSE IF Len(fn[cur].Succs) = 0
                    THEN PathReturn(TRUE)
                    ELSE [static EXCEPT !.queue = Tail(@) \o q,
                                        !.visited = @ \cup Range(q),
                                        !.enqueued = Enqueue(@, q)]
    /\ UNCHANGED <<goroutines, firstTime, lastTime, first, pc, result, opts, gstate,
                   nread, syncLog, stderr, run, classified>>

\* the search loop of pathExistsWithoutUnlock ends with the queue empty
PathEmpty ==
    /\ static.pc = "bfs" /\ static.queue = <<>>
    /\ static' = PathReturn(FALSE)
    /\ UNCHANGED <<goroutines, firstTime, lastTime, first, pc, result, opts, gstate,
                   nread, syncLog, stderr, run, classified>>

\* analyzeFn returns its findings once every lock site has been looked at
analyzeFnReturn ==
    /\ static.pc = "site" /\ static.sites = <<>>
    /\ static' = [static EXCEPT !.pc = "done"]
    /\ UNCHANGED <<goroutines, firstTime, lastTime, first, pc, result, opts, gstate,
                   nread, syncLog, stderr, run, classified>>

\* the static pass is handed one function of the program
InitStatic ==
    /\ InitDynamic({1}, {1000000}, {FALSE})
    /\ static \in {[NoStatic EXCEPT !.fn = fn] : fn \in Fns}

NextStatic == analyzeFn \/ PathStart \/ PathStep \/ PathEmpty \/ analyzeFnReturn

SpecStatic == InitStatic /\ [][NextStatic]_vars

\* analyzeFn is sequential code: a step that can be taken is taken
SpecStaticFair == SpecStatic /\ WF_vars(NextStatic)

\* the blocks a path can run through after leaving block b with the lock held
\* and no Unlock() passed: the least set closed under "successor of a block
\* that calls no Unlock()"
RECURSIVE HeldFrom(_, _)
HeldFrom(fn, held) ==
    LET more == {s \in 1..Len(fn) :
                    \E c \in held : /\ unlockIdx(fn, c) = {}
                                    /\ s \in Range(fn[c].Succs)}
    IN IF more \subseteq held THEN held ELSE HeldFrom(fn, held \cup more)

\* some path from the lock instruction reaches a function exit (the end of a
\* block with no successors) without passing through an Unlock() call
UnreleasedPath(fn, ls) ==
    /\ \A ii \in unlockIdx(fn, ls[1]) : ii < ls[2]
    /\ \/ Len(fn[ls[1]].Succs) = 0
       \/ \E e \in HeldFrom(fn, Range(fn[ls[1]].Succs)) :
             unlockIdx(fn, e) = {} /\ Len(fn[e].Succs) = 0

\* C24: for a function with no deferred unlock, the analyzer reports a
\* Lock()/RLock() call site exactly when some control-flow path from that lock
\* instruction reaches a function exit without passing through an
\* Unlock()/RUnlock() call, a lock in a block with no successors included.
C24_ReportsExactlyUnreleasedLocks ==
    (static.pc = "done" /\ ~hasDeferUnlock(static.fn)) =>
        Range(static.findings) =
            {ls \in Range(lockSites(static.fn)) : UnreleasedPath(static.fn, ls)}


-----------------------------------------------------------------------------
\* the findings of one output of detectLeaks that name goroutine gid
LeakFindingsOf(fs, gid) == {fs[i] : i \in {j \in DOMAIN fs : fs[j].GoroutineID = gid}}

\* C25: detectLeaks applies the creation-provenance filter to every block
\* reason except sync.  A goroutine blocked on sync at trace end with a
\* non-runtime-only blocking stack and blocked_for >= min_block is emitted as
\* LongBlock/Medium even when its birth was not observed or its creation stack
\* is runtime-only; a goroutine blocked on a channel operation or any other
\* non-sleep reason is emitted only when creation_seen is true and its
\* creation stack is not non-test-runtime-only.
C25_ProvenanceFilterSkipsSync ==
    pc = "done" =>
        \A gid \in DOMAIN goroutines : \A fs \in LeakOuts :
            LET g == goroutines[gid]
            IN  /\ ( /\ gstate[gid] = "Waiting"
                     /\ g.isBlocked
                     /\ g.reason = "sync"
                     /\ ~isRuntimeGoroutine(g.stack)
                     /\ OpenBlockedFor(gid) >= opts.MinBlock )
                      => /\ \E f \in LeakFindingsOf(fs, gid) :
                               /\ f.Kind = "long_block" /\ f.Confidence = "medium"
                               /\ f.BlockedOn = <<"sync">>
                         /\ \E i \in DOMAIN result.Findings :
                               /\ result.Findings[i].GoroutineID = gid
                               /\ result.Findings[i].Kind = "long_block"
                               /\ result.Findings[i].BlockedOn = <<"sync">>
                /\ ( /\ g.reason \notin {"sync", "sleep"}
                     /\ LeakFindingsOf(fs, gid) # {} )
                      => /\ g.creationSeen
                         /\ ~isNonTestRuntimeGoroutine(g.creationStack)

\* goroutine 1, already running when the trace starts, is blocked on sync for
\* over a second and reported; goroutine 2, born under a runtime-only creation
\* stack and blocked on a channel, is not
C25_Witness ==
    /\ pc = "done"
    /\ opts.MinBlock = 1000000
    /\ DOMAIN goroutines = {1, 2}
    /\ ~goroutines[1].creationSeen /\ ~syncLog[1].born
    /\ goroutines[1].isBlocked /\ goroutines[1].reason = "sync"
    /\ OpenBlockedFor(1) >= 1000000
    /\ \E i \in DOMAIN result.Findings :
          /\ result.Findings[i].GoroutineID = 1
          /\ result.Findings[i].Kind = "long_block"
          /\ result.Findings[i].BlockedOn = <<"sync">>
    /\ goroutines[2].creationSeen
    /\ isNonTestRuntimeGoroutine(goroutines[2].creationStack)
    /\ goroutines[2].isBlocked /\ IsChanReason(goroutines[2].reason)
    /\ ~isRuntimeGoroutine(goroutines[2].stack)
    /\ \A fs \in LeakOuts : LeakFindingsOf(fs, 2) = {}


-----------------------------------------------------------------------------
(* Transient blocks: goroutines that block on sync, get through and then   *)
(* run on, block again or die                                              *)

TransientEvents == 8

TransientA ==
    [ids |-> {1, 2},
     trans |-> {<<"Undetermined", "Running">>, <<"Running", "Waiting">>,
                <<"Waiting", "Running">>, <<"Running", "NotExist">>},
     reasons |-> {"sync"},
     stacks |-> {StackA1, StackB, StackRT}, cstacks |-> {StackC},
     deltas |-> {600000}, max |-> TransientEvents]

InitTransient == InitWith(TransientA.ids, {0, 1000000})

NextTransient == ReadTransition(TransientA) \/ Finish

SpecTransient == InitTransient /\ [][NextTransient]_vars

\* the goroutines whose longest completed sync block counts as a transient
\* long block
TransientCandidates ==
    {gid \in DOMAIN goroutines :
        /\ goroutines[gid].prevLongBlockDuration >= opts.MinBlock
        /\ ~isRuntimeGoroutine(goroutines[gid].prevLongBlockStack)}

TransientSites == {goroutines[gid].prevLongBlockLocation : gid \in TransientCandidates}

\* C26: for every site S that is the prev_long_location of at least one
\* goroutine with prev_long_duration >= min_block and a non-runtime-only
\* prev_long_stack, detectTransientBlocks emits exactly one LongBlock/Medium
\* finding with location S, whether that goroutine is now running, blocked
\* again or dead; it emits no finding for any other site.
C26_OneTransientFindingPerSite ==
    pc = "done" =>
        /\ \A fs \in TransientOuts :
              /\ \A S \in TransientSites :
                    /\ Cardinality({i \in DOMAIN fs : fs[i].Location = S}) = 1
                    /\ \A i \in DOMAIN fs :
                          fs[i].Location = S =>
                             fs[i].Kind = "long_block" /\ fs[i].Confidence = "medium"
              /\ \A i \in DOMAIN fs : fs[i].Location \in TransientSites
        /\ \A S \in TransientSites :
              \E i \in DOMAIN result.Findings :
                 /\ result.Findings[i].Location = S
                 /\ result.Findings[i].Kind = "long_block"
                 /\ result.Findings[i].Confidence = "medium"
                 /\ result.Findings[i].GoroutineID \in TransientCandidates

\* goroutine 1 got through a block of over a second at one site and died,
\* goroutine 2 got through one at another site and is blocked again; each
\* site has its finding
C26_Witness ==
    /\ pc = "done"
    /\ opts.MinBlock = 1000000
    /\ TransientCandidates = {1, 2}
    /\ goroutines[1].goroutineDead /\ gstate[1] = "NotExist"
    /\ goroutines[2].isBlocked /\ gstate[2] = "Waiting"
    /\ goroutines[2].blockStart = lastTime
    /\ Cardinality(TransientSites) = 2
    /\ \A gid \in {1, 2} :
          \E i \in DOMAIN result.Findings :
             /\ result.Findings[i].GoroutineID = gid
             /\ result.Findings[i].Kind = "long_block"
             /\ result.Findings[i].Location = goroutines[gid].prevLongBlockLocation
             /\ result.Findings[i].BlockedFor = goroutines[gid].prevLongBlockDuration


-----------------------------------------------------------------------------
\* C27: for every goroutine record in every reachable state, creation_seen is
\* true exactly when an event with from = NotExist was observed for that
\* goroutine; when it is false, creation stack, creation function and
\* creation location are all empty.
C27_CreationSeenIffBirthObserved ==
    \A gid \in DOMAIN goroutines :
        /\ goroutines[gid].creationSeen <=> syncLog[gid].born
        /\ ~goroutines[gid].creationSeen =>
              /\ goroutines[gid].creationStack = <<>>
              /\ goroutines[gid].creationFunction = <<>>
              /\ goroutines[gid].creationLocation = <<>>

\* goroutine 1 was running when the trace began and has since blocked;
\* goroutine 2 was born in the trace under user code and has run
C27_Witness ==
    /\ pc = "reading"
    /\ DOMAIN goroutines = {1, 2}
    /\ ~goroutines[1].creationSeen /\ ~syncLog[1].born
    /\ goroutines[1].isBlocked /\ syncLog[1].ran
    /\ goroutines[2].creationSeen /\ syncLog[2].born
    /\ goroutines[2].creationLocation = FrameLocation(FrameC)
    /\ gstate[2] = "Running"


-----------------------------------------------------------------------------
(* The stack classifier on its own: extractStack renders a stack, then     *)
(* isRuntimeGoroutine and isNonTestRuntimeGoroutine classify the rendering *)

FrameRT2  == [Func |-> <<"runtime2.", "park">>, File |-> <<"/go/src/", "rt2/", "park.go">>,
              Line |-> 7]
\* the generated test main: a user-named function in a testing-framework file
FrameMain == [Func |-> <<"main.main">>, File |-> <<"_testmain.go">>, Line |-> 50]
\* a library function under a runtime/ directory, in a file named testing.go
FrameTGo  == [Func |-> <<"example.com/", "codec.Encode">>,
              File |-> <<"/src/", "codec/", "runtime/", "testing.", "go">>, Line |-> 3]

ClassifierFrames == {FrameA, FrameRT, FrameRT2, FrameTst, FrameMain, FrameT, FrameTGo}

\* the bound of the stacks classified: at most this many frames
MaxFrames == 3

ClassifierStacks ==
    UNION {[1..n -> ClassifierFrames] : n \in 0..MaxFrames}

\* extractStack on a stack of the trace
ExtractStack ==
    /\ classified.pc = "idle"
    /\ \E s \in ClassifierStacks :
          LET x == extractStack(s)
          IN  classified' = [classified EXCEPT !.pc = "rendered", !.frames = s,
                                               !.stack = x.stack,
                                               !.function = x.function,
                                               !.location = x.location]
    /\ UNCHANGED <<goroutines, firstTime, lastTime, first, pc, result, opts, gstate,
                   nread, syncLog, stderr, run, static>>

\* isRuntimeGoroutine and isNonTestRuntimeGoroutine on the rendered stack
ClassifyStack ==
    /\ classified.pc = "rendered"
    /\ classified' = [classified EXCEPT
                         !.pc = "classified",
                         !.runtimeOnly = isRuntimeGoroutine(classified.stack),
                         !.nonTestRuntimeOnly =
                             isNonTestRuntimeGoroutine(classified.stack)]
    /\ UNCHANGED <<goroutines, firstTime, lastTime, first, pc, result, opts, gstate,
                   nread, syncLog, stderr, run, static>>

InitClassifier == InitWith({1}, {1000000})

NextClassifier == ExtractStack \/ ClassifyStack

SpecClassifier == InitClassifier /\ [][NextClassifier]_vars

\* a runtime frame as the documentation has it: function name beginning with
\* runtime. or runtime2., path containing runtime/ or /runtime/trace, or of
\* the testing framework (function beginning with testing., path containing
\* _testmain.go)
RuntimeFrame(f) ==
    \/ HasPrefix(f.Func, <<"runtime.">>) \/ HasPrefix(f.Func, <<"runtime2.">>)
    \/ Contains(f.File, <<"runtime/">>) \/ Contains(f.File, <<"/", "runtime/", "trace">>)
    \/ HasPrefix(f.Func, <<"testing.">>) \/ Contains(f.File, <<"_testmain.go">>)

TestingFunction(f) == HasPrefix(f.Func, <<"testing.">>)

\* C28: for every stack, is_non_test_runtime_only(stack) is true exactly when
\* every frame is a runtime frame and no frame is a testing. function; it
\* therefore implies is_runtime_only(stack), and the empty stack is
\* runtime-only.
C28_NonTestRuntimeOnly ==
    classified.pc = "classified" =>
        /\ classified.nonTestRuntimeOnly <=>
              /\ \A i \in DOMAIN classified.frames : RuntimeFrame(classified.frames[i])
              /\ \A i \in DOMAIN classified.frames : ~TestingFunction(classified.frames[i])
        /\ classified.nonTestRuntimeOnly => classified.runtimeOnly
        /\ classified.frames = <<>> => classified.runtimeOnly


-----------------------------------------------------------------------------
\* the filter of detectLeaks that rejects a blocked goroutine, by the code the
\* dump prints for it; "" when none does
LeakFilterCode(g) ==
    IF LeakSkipsStack(g) THEN "blocking-stack=runtime"
    ELSE IF g.reason = "sleep" THEN "reason=sleep"
    ELSE IF LeakSkipsProvenance(g)
         THEN IF IsChanReason(g.reason) THEN "chan-block+creation-stack=runtime"
              ELSE "non-chan-sync-block+creation-stack=runtime"
    ELSE ""

\* C29: with debug_filtered enabled, each goroutine blocked at trace end is
\* listed with status REPORTED exactly when none of detectLeaks' filters
\* (runtime-only blocking stack, reason sleep, creation provenance) rejects
\* it; otherwise the printed filter-reason code names the filter that rejects
\* it in detectLeaks.
C29_DumpStatusMatchesLeakFilters ==
    (pc = "done" /\ opts.DebugFiltered) =>
        \A gid \in DOMAIN goroutines :
            goroutines[gid].isBlocked =>
                /\ Cardinality({l \in stderr.dump.blocked : l.gid = gid}) = 1
                /\ \A l \in stderr.dump.blocked :
                      l.gid = gid =>
                         l.status = IF LeakFilterCode(goroutines[gid]) = ""
                                    THEN <<"REPORTED">>
                                    ELSE <<"FILTERED(", LeakFilterCode(goroutines[gid]), ")">>


-----------------------------------------------------------------------------
\* the options with debug_filtered switched the other way
OtherDebug(o) == [o EXCEPT !.DebugFiltered = ~o.DebugFiltered]

\* C30: enabling debug_filtered changes nothing in the Result: for the same
\* event sequence and min_block, Analyze returns the same findings,
\* duration_ms and goroutines_analyzed with debug_filtered true as with false,
\* and the diagnostic dump leaves every goroutine record unchanged.
C30_DebugDumpIsSideEffectOnly ==
    /\ [](pc = "done" =>
            /\ result \in AnalyzeResults(opts)
            /\ result \in AnalyzeResults(OtherDebug(opts))
            /\ AnalyzeResults(opts) = AnalyzeResults(OtherDebug(opts)))
    /\ [][(pc = "reading" /\ pc' = "done") =>
            /\ goroutines' = goroutines
            /\ stderr'.dump # NoDump => opts.DebugFiltered]_vars

\* a dump that lists a blocked goroutine next to a Result with a finding
C30_Witness ==
    /\ pc = "done"
    /\ opts.DebugFiltered
    /\ \E l \in stderr.dump.blocked : l.status = <<"REPORTED">>
    /\ stderr.dump.alive # {}
    /\ result.Findings # <<>>


-----------------------------------------------------------------------------
\* a step of the loop on an event that is no goroutine state transition: an
\* event is read and no goroutine changes state
OtherEventStep == nread' = nread + 1 /\ gstate' = gstate

\* C31: an event that is not a state transition of a goroutine resource
\* creates no goroutine record and changes no field of any existing record;
\* its only effect is on first_time (when it is the first event) and
\* last_time, so it still changes trace_duration and the blocked_for of the
\* goroutines blocked at trace end.
C31_OtherEventsOnlyMoveTime ==
    /\ [][OtherEventStep =>
            /\ goroutines' = goroutines
            /\ \E d \in DeadlockA.deltas :
                  lastTime' = IF first THEN 1 + d ELSE lastTime + d
            /\ firstTime' = IF first THEN lastTime' ELSE firstTime
            /\ ~first'
            /\ UNCHANGED <<pc, result, opts, syncLog>>]_vars
    /\ [](pc = "done" =>
            /\ result.DurationMs = (lastTime - firstTime) \div 1000
            /\ \A fs \in LeakOuts : \A i \in DOMAIN fs :
                  fs[i].BlockedFor = OpenBlockedFor(fs[i].GoroutineID))

\* goroutine 1 blocks at its second event and is the only goroutine of the
\* trace; two other events follow, and the finding counts their 300 ms
C31_Witness ==
    /\ pc = "done"
    /\ DOMAIN goroutines = {1}
    /\ nread = 4
    /\ syncLog[1].blocks = 1 /\ goroutines[1].isBlocked
    /\ OpenBlockedFor(1) = 300000
    /\ result.DurationMs >= 300
    /\ \E i \in DOMAIN result.Findings :
          /\ result.Findings[i].GoroutineID = 1
          /\ result.Findings[i].BlockedFor = 300000


-----------------------------------------------------------------------------
\* C32: when the run command returns, whether it succeeded, analysis of the
\* first trace failed, or retries were made, every trace file created by any
\* capture pass has been removed: a retry's trace is removed at once unless
\* its analysis has findings, in which case the previously kept trace is
\* removed and the new one is removed at return.
C32_NoTraceFileLeftBehind ==
    /\ run.pc = "returned" => run.files = {}
    /\ run.pc \in {"loop", "after"} =>
          /\ run.files = {run.traceToClean}
          /\ \E i \in DOMAIN run.passes :
                /\ run.passes[i].file = run.traceToClean
                /\ \A j \in DOMAIN run.passes :
                      j > i => ~HasFindings(run.passes[j])
                /\ i > 1 => HasFindings(run.passes[i])

\* the run has returned without error after a retry over two packages that
\* found nothing and a later retry with findings
C32_Witness ==
    /\ run.pc = "returned" /\ ~run.err
    /\ Len(run.passes) = 3
    /\ run.passes[2].outcome = "analyzed" /\ ~HasFindings(run.passes[2])
    /\ HasFindings(run.passes[3])
    /\ run.passes[3].file = 6
    /\ run.traceToClean = 6
    /\ run.files = {}


-----------------------------------------------------------------------------
\* the goroutines that reach the last test of detectOrphans: alive, not
\* blocked, born in the trace, creation stack not non-test-runtime-only
OrphanConsidered(gid) ==
    LET g == goroutines[gid]
    IN  /\ ~g.goroutineDead
        /\ ~g.isBlocked
        /\ g.creationSeen
        /\ ~isNonTestRuntimeGoroutine(g.creationStack)

\* C33: in every reachable state of a goroutine record with is_blocked =
\* false, the current-block fields reason, stack, function and location are
\* all empty; consequently, among the goroutines that detectOrphans considers
\* (not blocked), one is skipped exactly when its creation function is empty.
C33_UnblockedRecordHasNoBlockFields ==
    /\ \A gid \in DOMAIN goroutines :
          ~goroutines[gid].isBlocked =>
              /\ goroutines[gid].reason = ""
              /\ goroutines[gid].stack = <<>>
              /\ goroutines[gid].function = <<>>
              /\ goroutines[gid].location = <<>>
    /\ (pc = "done" /\ lastTime - firstTime < orphanWindow) =>
          \A gid \in DOMAIN goroutines : \A fs \in OrphanOuts :
              OrphanConsidered(gid) =>
                  ((\A i \in DOMAIN fs : fs[i].GoroutineID # gid)
                      <=> goroutines[gid].creationFunction = <<>>)

\* a short trace: goroutine 1, born under user code, has been through a block
\* and is reported; goroutine 2, born under testing.tRunner, has no creation
\* function and is skipped
C33_Witness ==
    /\ pc = "done"
    /\ lastTime - firstTime < orphanWindow
    /\ DOMAIN goroutines = {1, 2}
    /\ OrphanConsidered(1) /\ OrphanConsidered(2)
    /\ syncLog[1].blocks = 1 /\ ~goroutines[1].isBlocked
    /\ goroutines[1].creationFunction # <<>>
    /\ goroutines[2].creationFunction = <<>>
    /\ \E i \in DOMAIN result.Findings :
          IsOrphan(result.Findings[i]) /\ result.Findings[i].GoroutineID = 1
    /\ \A i \in DOMAIN result.Findings : result.Findings[i].GoroutineID # 2


-----------------------------------------------------------------------------
\* goroutine gid has got through no sync block of positive duration
NoPositiveSyncBlock(gid) ==
    \A i \in DOMAIN syncLog[gid].done : BlockDur(syncLog[gid].done[i]) <= 0

\* C34: detectTransientBlocks never reports a goroutine that has no completed
\* sync block with a positive duration, for any min_block including 0: a
\* record whose prev_long_duration is 0 has an empty prev_long_stack, which is
\* classified runtime-only and skipped.
C34_NoTransientWithoutPositiveBlock ==
    /\ \A gid \in DOMAIN goroutines :
          /\ NoPositiveSyncBlock(gid) => goroutines[gid].prevLongBlockDuration = 0
          /\ goroutines[gid].prevLongBlockDuration = 0 =>
                /\ goroutines[gid].prevLongBlockStack = <<>>
                /\ isRuntimeGoroutine(goroutines[gid].prevLongBlockStack)
    /\ pc = "done" =>
          \A gid \in DOMAIN goroutines :
              NoPositiveSyncBlock(gid) =>
                  \A fs \in TransientOuts : \A i \in DOMAIN fs : fs[i].GoroutineID # gid

\* min_block is 0 and goroutine 1 has got through two sync blocks with user
\* code on the stack, each unblocked at the timestamp it began; no finding
C34_Witness ==
    /\ pc = "done"
    /\ opts.MinBlock = 0
    /\ 1 \in DOMAIN goroutines
    /\ Len(syncLog[1].done) = 2
    /\ NoPositiveSyncBlock(1)
    /\ \A i \in {1, 2} : ~isRuntimeGoroutine(extractStack(syncLog[1].done[i].stack).stack)
    /\ lastTime > firstTime
    /\ result.Findings = <<>>

----------------------------------------------------------------------------
(* Durations are never negative                                            *)

\* C35: event times never decrease, so at every point of the run first_time
\* is at most last_time, the block_start of every blocked goroutine is at most
\* last_time and the recorded longest sync block is not negative; hence the
\* trace duration of the Result and the blocked_for of every finding of every
\* detector are not negative.
C35_DurationsNonNegative ==
    /\ firstTime <= lastTime
    /\ \A gid \in DOMAIN goroutines :
          /\ goroutines[gid].isBlocked => goroutines[gid].blockStart <= lastTime
          /\ goroutines[gid].prevLongBlockDuration >= 0
    /\ pc = "done" =>
          /\ result.DurationMs >= 0
          /\ \A i \in DOMAIN result.Findings : result.Findings[i].BlockedFor >= 0

\* a goroutine blocks on the last event of a trace that lasted 600 ms: the
\* finding on it has a blocked_for of exactly zero
C35_Witness ==
    /\ pc = "done"
    /\ result.DurationMs = 600
    /\ goroutines[1].isBlocked
    /\ goroutines[1].blockStart = lastTime
    /\ \E i \in DOMAIN result.Findings :
          /\ result.Findings[i].GoroutineID = 1
          /\ result.Findings[i].BlockedFor = 0

-----------------------------------------------------------------------------
\* C36: for every stack, extractStack returns an empty function and an empty
\* location exactly when isRuntimeGoroutine is true of the stack string it
\* renders: the per-frame test that picks the user location and the per-line
\* test that classifies the rendering agree on every frame.
C36_UserLocationIffNotRuntimeOnly ==
    classified.pc = "classified" =>
        ((classified.function = <<>> /\ classified.location = <<>>)
            <=> classified.runtimeOnly)


-----------------------------------------------------------------------------
\* C37: pathExistsWithoutUnlock terminates on every control-flow graph, with
\* cycles and with the lock's own block reachable from its successors
\* included: during the search for one lock site each basic block is put on
\* the queue at most once, and a search that has begun returns.
C37_SearchTerminates ==
    /\ [](\A b \in DOMAIN static.enqueued : static.enqueued[b] <= 1)
    /\ (static.pc = "bfs" ~> static.pc # "bfs")

\* the search on a graph of three blocks with cycles and no exit, in which the
\* lock's block is a successor of its successors, has drained its queue with
\* every block, the lock's included, enqueued once
C37_Witness ==
    /\ static.pc = "bfs"
    /\ static.queue = <<>>
    /\ Len(static.fn) = MaxBlocks
    /\ static.ls[1] \in Range(static.fn[2].Succs) \cap Range(static.fn[3].Succs)
    /\ static.fn[3].Succs = <<1, 2>>
    /\ \A b \in DOMAIN static.enqueued : static.enqueued[b] = 1

====
